---- MODULE Spec2Model ----
(***************************************************************************)
(* A model of the marking half of the collector in src/runtime/mgcmark.go  *)
(* with partial-deadlock detection: the pointer tagger, the sorted         *)
(* snapshot of all goroutines, root-job preparation and claiming, the      *)
(* object scanner and the reclaimer of unreachable goroutines.             *)
(*                                                                         *)
(* Pointers are machine words scaled down from 64 bits: an address takes   *)
(* TagShift bits, the three bits above it are the bits of GC_SKIP_MASK     *)
(* (bits 60..62 of the real word) and one more bit stands for bit 63.      *)
(* Slices are 1-based sequences; a Go index i is position i + 1.           *)
(***************************************************************************)
EXTENDS Integers, Sequences, FiniteSets, TLC

\* ------------------------------------------------------------------ bounds

\* Address bits below the tag bits of a (scaled) pointer.
TagShift == 3
\* Goroutines in allgs, for the snapshot and preparation specification.
MaxSnapG == 2
\* Goroutines in allgs, for the concurrent root-claiming specification.
MaxG == 2
\* Concurrent workers (background workers and assists).
NWorkers == 2
\* Arenas in mheap_.allArenas.
MaxArenas == 1
\* Heap objects.
NObj == 2
\* Items a worker's local work buffer holds before it spills.
BufCap == 1
\* Blocked goroutines the reclaimer is offered.
NFib == 3
\* The mutators in gcAssistAlloc.
NAssist == 2

\* --------------------------------------------------------------- constants

fixedRootFinalizers == 0
fixedRootFreeGStacks == 1
fixedRootCount == 2
rootBlockBytes == 262144
pagesPerSpanRoot == 512
\* pagesPerArena is set in mheap.go: heapArenaBytes / pageSize, which is 512
\* on the targets with 4 MiB arenas (32-bit, windows) and 8 KiB pages.
pagesPerArena == 512

\* ---------------------------------------------------------- pointer tagger

WordBits == TagShift + 4
WordMod == 2 ^ WordBits

RECURSIVE BitAnd(_, _)
BitAnd(a, b) ==
    IF a = 0 \/ b = 0 THEN 0
    ELSE (IF a % 2 = 1 /\ b % 2 = 1 THEN 1 ELSE 0) + 2 * BitAnd(a \div 2, b \div 2)

RECURSIVE BitOr(_, _)
BitOr(a, b) ==
    IF a = 0 THEN b
    ELSE IF b = 0 THEN a
    ELSE (IF a % 2 = 1 \/ b % 2 = 1 THEN 1 ELSE 0) + 2 * BitOr(a \div 2, b \div 2)

\* ^x for a word of WordBits bits.
BitNot(a) == (WordMod - 1) - a

\* 0x7000000000000000: bits 60..62 of 64, here bits TagShift..TagShift+2.
GC_SKIP_MASK == 7 * (2 ^ TagShift)
GC_UNDO_SKIP_MASK == BitNot(GC_SKIP_MASK)

gc_ptr_is_masked(p) == BitAnd(p, GC_SKIP_MASK) = GC_SKIP_MASK

\* detect is the value of debug.gcdetectdeadlocks.
gc_mask_ptr(p, detect) ==
    IF ~(detect # 0) THEN BitOr(p, GC_SKIP_MASK) ELSE p

\* Mutant: gc_undo_mask_ptr leaves the pointer as it is.
gc_undo_mask_ptrKeepsMask(p) == p

gc_undo_mask_ptr(p) == BitAnd(p, GC_UNDO_SKIP_MASK)

\* ------------------------------------------------- goroutines and snapshot

GStatuses ==
    {"_Grunnable", "_Grunning", "_Gsyscall", "_Gwaiting", "_Gdead",
     "_Gunreachable", "_Gdeadlocked"}

BlockingWaitReasons ==
    {"waitReasonChanReceive", "waitReasonSyncWaitGroupWait", "waitReasonChanSend",
     "waitReasonChanReceiveNilChan", "waitReasonChanSendNilChan", "waitReasonSelect",
     "waitReasonSelectNoCases", "waitReasonSyncMutexLock", "waitReasonSyncRWMutexRLock",
     "waitReasonSyncRWMutexLock", "waitReasonSyncCondWait"}

\* Two of the wait reasons the runtime wakes by itself stand for the rest.
WaitReasons == BlockingWaitReasons \cup {"waitReasonZero", "waitReasonSleep"}

\* Mutant: waitReasonSyncCondWait is missing from the list.
unblockingWaitReasonNoCond(reason) ==
    /\ reason # "waitReasonChanReceive"
    /\ reason # "waitReasonSyncWaitGroupWait"
    /\ reason # "waitReasonChanSend"
    /\ reason # "waitReasonChanReceiveNilChan"
    /\ reason # "waitReasonChanSendNilChan"
    /\ reason # "waitReasonSelect"
    /\ reason # "waitReasonSelectNoCases"
    /\ reason # "waitReasonSyncMutexLock"
    /\ reason # "waitReasonSyncRWMutexRLock"
    /\ reason # "waitReasonSyncRWMutexLock"

unblockingWaitReason(reason) ==
    /\ reason # "waitReasonChanReceive"
    /\ reason # "waitReasonSyncWaitGroupWait"
    /\ reason # "waitReasonChanSend"
    /\ reason # "waitReasonChanReceiveNilChan"
    /\ reason # "waitReasonChanSendNilChan"
    /\ reason # "waitReasonSelect"
    /\ reason # "waitReasonSelectNoCases"
    /\ reason # "waitReasonSyncMutexLock"
    /\ reason # "waitReasonSyncRWMutexRLock"
    /\ reason # "waitReasonSyncRWMutexLock"
    /\ reason # "waitReasonSyncCondWait"

\* A goroutine as the snapshot sees it: its status and its wait reason.
GKindsAll ==
    [status : GStatuses \ {"_Gwaiting"}, waitreason : {"waitReasonZero"}]
        \cup [status : {"_Gwaiting"}, waitreason : WaitReasons]

\* The goroutine kinds of the concurrent specification: a live goroutine,
\* a dead one and a blocked one.
GKindsFew ==
    {[status |-> "_Grunning", waitreason |-> "waitReasonZero"],
     [status |-> "_Gdead", waitreason |-> "waitReasonZero"],
     [status |-> "_Gwaiting", waitreason |-> "waitReasonChanReceive"]}

\* The i'th goroutine of allgs lives at address i.
GAddr(i) == i

VARIABLES
    detect,        \* debug.gcdetectdeadlocks
    gs,            \* the goroutines by address: status, waitreason
    allgs,         \* the allgs slice: pointers to goroutines
    modules,       \* activeModules(): the byte sizes of data and bss
    nArenas,       \* len(mheap_.allArenas)
    work,          \* the root-marking fields of the work struct
    thrown,        \* the message of the throw or panic that ended the run, or "none"
    phase,         \* "stw" before gcMarkRootPrepare has run, then "mark"
    wpc,           \* each worker's position in gcDrain / gcDrainN
    wnext,         \* gcUpdateMarkrootNext's local next, per worker
    wjob,          \* the root job a worker has claimed
    invoked,       \* how often markroot has run for each root index
    gcscandone,    \* g.gcscandone, by goroutine address
    scanned,       \* how often scanstack has run on each goroutine
    badderef       \* a tagged stackRoots entry was used as a *g

rootVars ==
    <<detect, gs, allgs, modules, nArenas, work, thrown, phase, wpc, wnext, wjob,
      invoked, gcscandone, scanned, badderef>>

VARIABLES
    heap,          \* the heap objects by base address: pointer slots, noscan
    rootblock,     \* the words of the one root block markroot scans
    rootsleft,     \* whether the root block is still to be scanned
    marked,        \* the mark bit of each object
    gcw,           \* each worker's local work buffer
    full,          \* the global pool of work: how often each object is in it
    mpc,           \* each worker's position in scanblock / scanobject
    looked,        \* the slot values scanobject has passed to findObject
    tagseen        \* the tagged slot values scanobject has read

heapVars == <<heap, rootblock, rootsleft, marked, gcw, full, mpc, looked, tagseen>>

VARIABLES
    parked,        \* the blocked goroutines: status, waitreason, wait structures
    sudog,         \* the sudogs by id; 0 is the nil sudog
    semaRoot,      \* the semaRoot: treap and nwait
    notifier,      \* the notifyList: head and tail
    hchan,         \* each channel's recvq: first and last
    pool,          \* the sudogs given to releaseSudog, with their g at that time
    gfree,         \* the goroutines given to gfput
    reclaimLog,    \* history: the goroutines reclaimed and how each was parked
    reclaimThrown  \* the message of a throw in the reclaimer, or "none"

reclaimVars ==
    <<parked, sudog, semaRoot, notifier, hchan, pool, gfree, reclaimLog, reclaimThrown>>

VARIABLES
    assistQueue,      \* work.assistQueue.q: the parked assists, head first
    gcAssistBytes,    \* gp.gcAssistBytes of each mutator
    bgScanCredit,     \* gcController.bgScanCredit
    bytesPerWork,     \* gcController.assistBytesPerWork, as <<numerator, denominator>>
    limiting,         \* gcCPULimiter.limiting()
    gcBlackenEnabled, \* gcBlackenEnabled != 0
    apc,              \* each mutator's position in gcAssistAlloc
    flushes,          \* history: how often a worker has flushed credit
    yields            \* history: how often a preempted assist has yielded

assistVars ==
    <<assistQueue, gcAssistBytes, bgScanCredit, bytesPerWork, limiting,
      gcBlackenEnabled, apc, flushes, yields>>

VARIABLES
    dflags,           \* the flags gcDrain was called with
    dpc,              \* the worker's position in gcDrain
    preempt,          \* gp.preempt of the worker
    gcwaiting,        \* sched.gcwaiting
    runSafePointFn,   \* pp.runSafePointFn
    avail,            \* the work items tryGetFast / tryGet can hand out
    made,             \* how many work items have been produced so far
    heapScanWork,     \* gcw.heapScanWork
    initScanWork,     \* gcDrain's local initScanWork
    checkWork,        \* gcDrain's local checkWork
    ctlScanWork,      \* gcController.heapScanWork
    stopSeen,         \* history: a loop head has found a stop-the-world or forEachP pending
    drained           \* history: gcw.heapScanWork at gcDrain's entry, the scan work done
                      \* since, and the sum passed to gcFlushBgCredit since

drainVars ==
    <<dflags, dpc, preempt, gcwaiting, runSafePointFn, avail, made, heapScanWork,
      initScanWork, checkWork, ctlScanWork, stopSeen, drained>>

VARIABLES
    nwait,            \* work.nwait, a uint32 kept to CounterBits bits
    nproc,            \* work.nproc
    param,            \* gp.param != nil of each mutator
    bpc,              \* each mutator's position in gcAssistAlloc1
    bgBusy,           \* the background workers between their decrement and increment of nwait
    workAvailable,    \* gcMarkWorkAvailable(nil)
    calledMarkDone,   \* history: the mutators whose gcAssistAlloc has called gcMarkDone
    barrierThrown     \* the message of a throw on work.nwait, or "none"

barrierVars ==
    <<nwait, nproc, param, bpc, bgBusy, workAvailable, calledMarkDone, barrierThrown>>

VARIABLES
    lobj,             \* the large object: its size and its pointer slots by offset
    ojobs,            \* the offsets into the large object that are in the work queues
    oput,             \* history: the oblets enqueued, each with the job that enqueued it
    oranges,          \* history: the ranges scanned, as <<offset, length>>
    ogreyed           \* history: the offsets of the slots whose value went to greyobject

obletVars == <<lobj, ojobs, oput, oranges, ogreyed>>

VARIABLES
    tagp,             \* a pointer value
    tagptr,           \* the value after the calls of taglog
    taglog            \* history: the tagger functions applied to tagp, in order

taggerVars == <<tagp, tagptr, taglog>>

VARIABLES
    prepares          \* history: how often gcMarkRootPrepare has run again

VARIABLES
    gdefer,           \* gp._defer: the deferred calls of the goroutine, head first
    gpanic,           \* gp._panic: the panic records, head first, with their goexit flag
    dentry,           \* history: gp._defer when gcGoexit was entered
    dran,             \* history: the deferred calls run, with the head of gp._panic then
    gxpc              \* the position in gcGoexit

deferVars == <<gdefer, gpanic, dentry, dran, gxpc>>

unitVars == <<obletVars, taggerVars, prepares, deferVars>>

\* The variables of the other subsystems, which root marking leaves alone.
nonRootVars == <<heapVars, reclaimVars, assistVars, drainVars, barrierVars, unitVars>>

\* The variables scanning leaves alone.
nonHeapVars == <<rootVars, reclaimVars, assistVars, drainVars, barrierVars, unitVars>>

\* The variables reclamation leaves alone.
nonReclaimVars == <<rootVars, heapVars, assistVars, drainVars, barrierVars, unitVars>>

\* The variables the assists leave alone.
nonAssistVars == <<rootVars, heapVars, reclaimVars, drainVars, barrierVars, unitVars>>

vars == <<rootVars, nonRootVars>>

\* readgstatus(gp)
readgstatus(gp) == gs[gp].status

\* make([]unsafe.Pointer, n)
MakeSlice(n) == [i \in 1..n |-> 0]

\* Mutant: a _Gunreachable goroutine is sorted like any goroutine that is
\* not waiting.
SnapshotStepKeepsUnreachable(st, p, g, det) ==
    LET gp == gc_undo_mask_ptr(p)
        status == g[gp].status
    IN  IF st.thrown # "none" THEN st
        ELSE IF status # "_Gwaiting" \/ unblockingWaitReason(g[gp].waitreason)
        THEN [st EXCEPT !.allgsSorted[st.currIndex + 1] = gp,
                        !.currIndex = @ + 1]
        ELSE [st EXCEPT !.allgsSorted[st.blockedIndex + 1] = gc_mask_ptr(gp, det),
                        !.blockedIndex = @ - 1]

\* One iteration of the loop over allgs; st holds the loop's variables.
SnapshotStep(st, p, g, det) ==
    LET gp == gc_undo_mask_ptr(p)
        status == g[gp].status
    IN  IF st.thrown # "none" THEN st
        ELSE IF status = "_Gunreachable"
        THEN [st EXCEPT !.thrown = "Found unreachable goroutines in allgs snapshot!"]
        ELSE IF status # "_Gwaiting" \/ unblockingWaitReason(g[gp].waitreason)
        THEN [st EXCEPT !.allgsSorted[st.currIndex + 1] = gp,
                        !.currIndex = @ + 1]
        ELSE [st EXCEPT !.allgsSorted[st.blockedIndex + 1] = gc_mask_ptr(gp, det),
                        !.blockedIndex = @ - 1]

RECURSIVE SnapshotLoop(_, _, _, _, _)
SnapshotLoop(st, ags, i, g, det) ==
    IF i > Len(ags) THEN st
    ELSE SnapshotLoop(SnapshotStep(st, ags[i], g, det), ags, i + 1, g, det)

\* Mutant: the count returned is blockedIndex, not blockedIndex + 1.
allGsSnapshotOffByOne(ags, g, det) ==
    LET st0 == [allgsSorted |-> MakeSlice(Len(ags)), currIndex |-> 0,
                blockedIndex |-> Len(ags) - 1, thrown |-> "none"]
        st == SnapshotLoop(st0, ags, 1, g, det)
    IN  IF st.thrown # "none"
        THEN [allgsSorted |-> <<>>, n |-> 0, thrown |-> st.thrown]
        ELSE IF st.currIndex # st.blockedIndex + 1
        THEN [allgsSorted |-> <<>>, n |-> 0,
              thrown |-> "currIndex and blockedIndex don't match up"]
        ELSE [allgsSorted |-> st.allgsSorted, n |-> st.blockedIndex,
              thrown |-> "none"]

\* allGsSnapshotSortedForGC: the sorted slice, the count of its live prefix
\* and the throw or panic, if any.
allGsSnapshotSortedForGC(ags, g, det) ==
    LET st0 == [allgsSorted |-> MakeSlice(Len(ags)), currIndex |-> 0,
                blockedIndex |-> Len(ags) - 1, thrown |-> "none"]
        st == SnapshotLoop(st0, ags, 1, g, det)
    IN  IF st.thrown # "none"
        THEN [allgsSorted |-> <<>>, n |-> 0, thrown |-> st.thrown]
        ELSE IF st.currIndex # st.blockedIndex + 1
        THEN [allgsSorted |-> <<>>, n |-> 0,
              thrown |-> "currIndex and blockedIndex don't match up"]
        ELSE [allgsSorted |-> st.allgsSorted, n |-> st.blockedIndex + 1,
              thrown |-> "none"]

\* allGsSnapshot (proc.go): a copy of allgs.
allGsSnapshot(ags) == ags

\* ------------------------------------------------------- gcMarkRootPrepare

divRoundUp(n, a) == (n + a - 1) \div a

nBlocks(bytes) == divRoundUp(bytes, rootBlockBytes)

Max(S) == CHOOSE x \in S : \A y \in S : y <= x

\* The largest block count over the modules, starting from 0.
MaxBlocks(sizes) == Max({0} \cup {nBlocks(sizes[i]) : i \in DOMAIN sizes})

WorkZero ==
    [nDataRoots |-> 0, nBSSRoots |-> 0, nSpanRoots |-> 0, stackRoots |-> <<>>,
     nStackRoots |-> 0, nValidStackRoots |-> 0, markrootNext |-> 0,
     markrootJobs |-> 0, baseData |-> 0, baseBSS |-> 0, baseSpans |-> 0,
     baseStacks |-> 0, baseEnd |-> 0]

\* Mutant: markrootJobs counts every stack root, as before the live/blocked
\* split.
PreparedWorkAllStacks(snap, blockedIndex) ==
    LET nData == MaxBlocks([i \in DOMAIN modules |-> modules[i].data])
        nBSS == MaxBlocks([i \in DOMAIN modules |-> modules[i].bss])
        nSpan == nArenas * (pagesPerArena \div pagesPerSpanRoot)
        nStack == Len(snap)
        bData == fixedRootCount
        bBSS == bData + nData
        bSpans == bBSS + nBSS
        bStacks == bSpans + nSpan
    IN  [nDataRoots |-> nData, nBSSRoots |-> nBSS, nSpanRoots |-> nSpan,
         stackRoots |-> snap, nStackRoots |-> nStack,
         nValidStackRoots |-> blockedIndex,
         markrootNext |-> 0,
         markrootJobs |-> fixedRootCount + nData + nBSS + nSpan + nStack,
         baseData |-> bData, baseBSS |-> bBSS, baseSpans |-> bSpans,
         baseStacks |-> bStacks, baseEnd |-> bStacks + nStack]

\* Mutant: baseSpans leaves out the BSS roots.
PreparedWorkBadBase(snap, blockedIndex) ==
    LET nData == MaxBlocks([i \in DOMAIN modules |-> modules[i].data])
        nBSS == MaxBlocks([i \in DOMAIN modules |-> modules[i].bss])
        nSpan == nArenas * (pagesPerArena \div pagesPerSpanRoot)
        nStack == Len(snap)
        bData == fixedRootCount
        bBSS == bData + nData
        bSpans == bBSS
        bStacks == bSpans + nSpan
    IN  [nDataRoots |-> nData, nBSSRoots |-> nBSS, nSpanRoots |-> nSpan,
         stackRoots |-> snap, nStackRoots |-> nStack,
         nValidStackRoots |-> blockedIndex,
         markrootNext |-> 0,
         markrootJobs |-> fixedRootCount + nData + nBSS + nSpan + blockedIndex,
         baseData |-> bData, baseBSS |-> bBSS, baseSpans |-> bSpans,
         baseStacks |-> bStacks, baseEnd |-> bStacks + nStack]

\* Mutant: markrootJobs is added to, not assigned.
PreparedWorkAddsJobs(snap, blockedIndex) ==
    LET nData == MaxBlocks([i \in DOMAIN modules |-> modules[i].data])
        nBSS == MaxBlocks([i \in DOMAIN modules |-> modules[i].bss])
        nSpan == nArenas * (pagesPerArena \div pagesPerSpanRoot)
        nStack == Len(snap)
        bData == fixedRootCount
        bBSS == bData + nData
        bSpans == bBSS + nBSS
        bStacks == bSpans + nSpan
    IN  [nDataRoots |-> nData, nBSSRoots |-> nBSS, nSpanRoots |-> nSpan,
         stackRoots |-> snap, nStackRoots |-> nStack,
         nValidStackRoots |-> blockedIndex,
         markrootNext |-> 0,
         markrootJobs |-> work.markrootJobs + fixedRootCount + nData + nBSS + nSpan
                             + blockedIndex,
         baseData |-> bData, baseBSS |-> bBSS, baseSpans |-> bSpans,
         baseStacks |-> bStacks, baseEnd |-> bStacks + nStack]

\* The work struct gcMarkRootPrepare leaves, given the snapshot it took.
PreparedWork(snap, blockedIndex) ==
    LET nData == MaxBlocks([i \in DOMAIN modules |-> modules[i].data])
        nBSS == MaxBlocks([i \in DOMAIN modules |-> modules[i].bss])
        nSpan == nArenas * (pagesPerArena \div pagesPerSpanRoot)
        nStack == Len(snap)
        bData == fixedRootCount
        bBSS == bData + nData
        bSpans == bBSS + nBSS
        bStacks == bSpans + nSpan
    IN  [nDataRoots |-> nData, nBSSRoots |-> nBSS, nSpanRoots |-> nSpan,
         stackRoots |-> snap, nStackRoots |-> nStack,
         nValidStackRoots |-> blockedIndex,
         markrootNext |-> 0,
         markrootJobs |-> fixedRootCount + nData + nBSS + nSpan + blockedIndex,
         baseData |-> bData, baseBSS |-> bBSS, baseSpans |-> bSpans,
         baseStacks |-> bStacks, baseEnd |-> bStacks + nStack]

\* gcMarkRootPrepare, with the world stopped.
gcMarkRootPrepare ==
    /\ phase = "stw"
    /\ thrown = "none"
    /\ IF ~(detect = 0)
       THEN /\ work' = PreparedWork(allGsSnapshot(allgs), Len(allgs))
            /\ thrown' = thrown
            /\ phase' = "mark"
       ELSE LET r == allGsSnapshotSortedForGC(allgs, gs, detect)
            IN  IF r.thrown # "none"
                THEN /\ thrown' = r.thrown
                     /\ UNCHANGED <<work, phase>>
                ELSE /\ work' = PreparedWork(r.allgsSorted, r.n)
                     /\ thrown' = thrown
                     /\ phase' = "mark"
    /\ UNCHANGED <<detect, gs, allgs, modules, nArenas, wpc, wnext, wjob, invoked,
                   gcscandone, scanned, badderef>>
    /\ UNCHANGED nonRootVars

\* How often gcMarkRootPrepare is called again.
MaxAgain == 1

\* gcMarkRootPrepare called again, with the world still stopped and the
\* goroutines, modules and arenas as they were.
gcMarkRootPrepareAgain ==
    /\ phase = "mark"
    /\ thrown = "none"
    /\ prepares < MaxAgain
    /\ prepares' = prepares + 1
    /\ IF ~(detect = 0)
       THEN /\ work' = PreparedWork(allGsSnapshot(allgs), Len(allgs))
            /\ thrown' = thrown
       ELSE LET r == allGsSnapshotSortedForGC(allgs, gs, detect)
            IN  IF r.thrown # "none"
                THEN /\ thrown' = r.thrown
                     /\ UNCHANGED work
                ELSE /\ work' = PreparedWork(r.allgsSorted, r.n)
                     /\ thrown' = thrown
    /\ UNCHANGED <<detect, gs, allgs, modules, nArenas, phase, wpc, wnext, wjob, invoked,
                   gcscandone, scanned, badderef>>
    /\ UNCHANGED <<heapVars, reclaimVars, assistVars, drainVars, barrierVars,
                   obletVars, taggerVars, deferVars>>

\* ------------------------------------- claiming root jobs: gcDrain, gcDrainN

Workers == 1..NWorkers

\* Odd workers are background workers in gcDrain, even ones are assists in
\* gcDrainN.
IsAssist(w) == w % 2 = 0

\* The root indexes the history variable invoked counts.
RootIdx ==
    0 .. (fixedRootCount + 4 + MaxArenas * (pagesPerArena \div pagesPerSpanRoot)
            + MaxG + MaxSnapG)

\* gcDrain lines 1610-1612 and gcDrainN lines 1766-1768: enter the root loop
\* only if a root job seems to be left.  A worker that finds none goes on to
\* the heap, which this specification leaves out.
DrainStart(w) ==
    /\ phase = "mark" /\ thrown = "none"
    /\ wpc[w] = "start"
    /\ LET rootNext == work.markrootNext
           rootJobs == work.markrootJobs
       IN  wpc' = [wpc EXCEPT ![w] = IF rootNext < rootJobs THEN "update" ELSE "done"]
    /\ UNCHANGED <<detect, gs, allgs, modules, nArenas, work, thrown, phase, wnext,
                   wjob, invoked, gcscandone, scanned, badderef>>
    /\ UNCHANGED nonRootVars

\* gcUpdateMarkrootNext, lines 1527-1530: the first load and test.
UpdateLoad(w) ==
    /\ phase = "mark" /\ thrown = "none"
    /\ wpc[w] = "update"
    /\ IF work.markrootNext < work.markrootJobs
       THEN /\ wnext' = [wnext EXCEPT ![w] = work.markrootNext]
            /\ wpc' = [wpc EXCEPT ![w] = "cas"]
       ELSE /\ wnext' = [wnext EXCEPT ![w] = 0]
            /\ wpc' = [wpc EXCEPT ![w] = "done"]
    /\ UNCHANGED <<detect, gs, allgs, modules, nArenas, work, thrown, phase, wjob,
                   invoked, gcscandone, scanned, badderef>>
    /\ UNCHANGED nonRootVars

\* Mutant: a plain store in place of the compare-and-swap.
CasNotAtomic(cur, old, new) == [val |-> new, ok |-> TRUE]

\* Mutant: a successful swap advances the counter by one too many.
CasSkips(cur, old, new) ==
    IF cur = old THEN [val |-> new + 1, ok |-> TRUE] ELSE [val |-> cur, ok |-> FALSE]

\* atomic.Cas(&work.markrootNext, old, new): the new value and whether it
\* was stored.
Cas(cur, old, new) ==
    IF cur = old THEN [val |-> new, ok |-> TRUE] ELSE [val |-> cur, ok |-> FALSE]

\* gcUpdateMarkrootNext, lines 1533-1537: the compare-and-swap.
UpdateCas(w) ==
    /\ phase = "mark" /\ thrown = "none"
    /\ wpc[w] = "cas"
    /\ LET r == Cas(work.markrootNext, wnext[w], wnext[w] + 1)
       IN  /\ work' = [work EXCEPT !.markrootNext = r.val]
           /\ IF r.ok
              THEN /\ wjob' = [wjob EXCEPT ![w] = wnext[w]]
                   /\ wpc' = [wpc EXCEPT ![w] = "markroot"]
              ELSE /\ wjob' = wjob
                   /\ wpc' = [wpc EXCEPT ![w] = "reload"]
    \* next is dead until the reload assigns it again.
    /\ wnext' = [wnext EXCEPT ![w] = 0]
    /\ UNCHANGED <<detect, gs, allgs, modules, nArenas, thrown, phase,
                   invoked, gcscandone, scanned, badderef>>
    /\ UNCHANGED nonRootVars

\* Mutant: the reload does not test whether the jobs have run out.
UpdateReloadNoTest(w) ==
    /\ phase = "mark" /\ thrown = "none"
    /\ wpc[w] = "reload"
    /\ wnext' = [wnext EXCEPT ![w] = work.markrootNext]
    /\ wpc' = [wpc EXCEPT ![w] = "cas"]
    /\ UNCHANGED <<detect, gs, allgs, modules, nArenas, work, thrown, phase, wjob,
                   invoked, gcscandone, scanned, badderef>>
    /\ UNCHANGED nonRootVars

\* gcUpdateMarkrootNext, lines 1540-1544: after a failed compare-and-swap.
UpdateReload(w) ==
    /\ phase = "mark" /\ thrown = "none"
    /\ wpc[w] = "reload"
    /\ IF work.markrootNext >= work.markrootJobs
       THEN /\ wnext' = [wnext EXCEPT ![w] = 0]
            /\ wpc' = [wpc EXCEPT ![w] = "done"]
       ELSE /\ wnext' = [wnext EXCEPT ![w] = work.markrootNext]
            /\ wpc' = [wpc EXCEPT ![w] = "cas"]
    /\ UNCHANGED <<detect, gs, allgs, modules, nArenas, work, thrown, phase, wjob,
                   invoked, gcscandone, scanned, badderef>>
    /\ UNCHANGED nonRootVars

\* suspendG (preempt.go) reports a goroutine that is _Gdead as dead.
suspendGDead(status) == status = "_Gdead"

\* Mutant: the switch as the FIXME of line 592 would deploy it, reclaiming
\* on 1.
unreachablePolicyDeployed(status, det) ==
    IF status # "_Gunreachable" THEN "none"
    ELSE IF det = 1 THEN "gcGoexit"
    ELSE IF det = 2 THEN "_Gdeadlocked"
    ELSE "throw"

\* Mutant: a deadlocked goroutine is treated like an unreachable one.
unreachablePolicyAlsoDeadlocked(status, det) ==
    IF status \notin {"_Gunreachable", "_Gdeadlocked"} THEN "none"
    ELSE IF det = 0 THEN "gcGoexit"
    ELSE IF det = 2 THEN "_Gdeadlocked"
    ELSE "throw"

\* markroot lines 590-599: what markroot does first with a goroutine of this
\* status when debug.gcdetectdeadlocks is det.
unreachablePolicy(status, det) ==
    IF status # "_Gunreachable" THEN "none"
    ELSE IF det = 0 THEN "gcGoexit"
    ELSE IF det = 2 THEN "_Gdeadlocked"
    ELSE "throw"

\* markroot's stack-root case, lines 569-634, for root index i: the new
\* goroutine table, gcscandone, scanned, badderef and the throw, if any.
MarkrootStack(i) ==
    LET same == [gs |-> gs, gcscandone |-> gcscandone, scanned |-> scanned,
                 badderef |-> badderef, thrown |-> "none"]
    IN  IF i < work.baseStacks \/ work.baseEnd <= i
        THEN [same EXCEPT !.thrown = "markroot: bad index"]
        ELSE
        LET gp == work.stackRoots[i - work.baseStacks + 1]
        IN  IF gc_ptr_is_masked(gp)
            \* (*g)(p) of a tagged entry: the read of gp's status faults.
            THEN [same EXCEPT !.badderef = TRUE,
                              !.thrown = "fault: tagged pointer used as *g"]
            ELSE
            LET status == readgstatus(gp)
                policy == unreachablePolicy(status, detect)
                bad == policy = "throw"
                gs1 == IF policy = "gcGoexit"
                       THEN [gs EXCEPT ![gp] = [status |-> "_Gdead",
                                                waitreason |-> "waitReasonZero"]]
                       ELSE IF policy = "_Gdeadlocked"
                       THEN [gs EXCEPT ![gp].status = "_Gdeadlocked"]
                       ELSE gs
                done1 == IF policy = "gcGoexit"
                         THEN [gcscandone EXCEPT ![gp] = FALSE]
                         ELSE gcscandone
            IN  IF bad
                THEN [same EXCEPT
                        !.thrown = "unreachable goroutine found during regular GC"]
                ELSE IF suspendGDead(gs1[gp].status)
                THEN [same EXCEPT !.gs = gs1,
                                  !.gcscandone = [done1 EXCEPT ![gp] = TRUE]]
                ELSE IF done1[gp]
                THEN [same EXCEPT !.gs = gs1, !.gcscandone = done1,
                                  !.thrown = "g already scanned"]
                ELSE [same EXCEPT !.gs = gs1,
                                  !.gcscandone = [done1 EXCEPT ![gp] = TRUE],
                                  !.scanned = [scanned EXCEPT ![gp] = @ + 1]]

\* Whether markroot's switch sends index i to its default, stack-root case.
IsStackCase(i) ==
    /\ ~(work.baseData <= i /\ i < work.baseBSS)
    /\ ~(work.baseBSS <= i /\ i < work.baseSpans)
    /\ i # fixedRootFinalizers
    /\ i # fixedRootFreeGStacks
    /\ ~(work.baseSpans <= i /\ i < work.baseStacks)

\* markroot(gcw, job, flags) for the job the worker claimed, then back to
\* the loop head: gcDrain's line 1638, gcDrainN's line 1747.
Markroot(w) ==
    /\ phase = "mark" /\ thrown = "none"
    /\ wpc[w] = "markroot"
    /\ invoked' = [invoked EXCEPT ![wjob[w]] = @ + 1]
    /\ IF IsStackCase(wjob[w])
       THEN LET r == MarkrootStack(wjob[w])
            IN  /\ gs' = r.gs
                /\ gcscandone' = r.gcscandone
                /\ scanned' = r.scanned
                /\ badderef' = r.badderef
                /\ thrown' = r.thrown
       ELSE UNCHANGED <<gs, gcscandone, scanned, badderef, thrown>>
    /\ wpc' = [wpc EXCEPT ![w] = IF IsAssist(w) THEN "start" ELSE "update"]
    /\ wjob' = [wjob EXCEPT ![w] = 0]
    /\ UNCHANGED <<detect, allgs, modules, nArenas, work, phase, wnext>>
    /\ UNCHANGED nonRootVars

\* gcMarkRootCheck, lines 253-285: the message of its throw, or "none".
\* forEachGRace (proc.go) hands it the goroutines in the order of allgs, and
\* it looks at the first work.nStackRoots of them.
gcMarkRootCheck(wk, ags, done) ==
    IF wk.markrootNext < wk.markrootJobs
    THEN "left over markroot jobs"
    ELSE IF \E i \in DOMAIN ags : i <= wk.nStackRoots /\ ~done[ags[i]]
    THEN "scan missed a g"
    ELSE "none"

\* gopark: while the roots are marked, the running goroutine gp blocks
\* receiving on a channel.
gopark(gp) ==
    /\ phase = "mark" /\ thrown = "none"
    /\ gs[gp].status = "_Grunning"
    /\ gs' = [gs EXCEPT ![gp] = [status |-> "_Gwaiting",
                                 waitreason |-> "waitReasonChanReceive"]]
    /\ UNCHANGED <<detect, allgs, modules, nArenas, work, thrown, phase, wpc,
                   wnext, wjob, invoked, gcscandone, scanned, badderef>>
    /\ UNCHANGED nonRootVars

\* The detector: the goroutine gp, blocked for a reason that nothing but
\* another goroutine can end, and not scanned, is found unreachable.
detectUnreachable(gp) ==
    /\ phase = "mark" /\ thrown = "none"
    /\ gs[gp].status = "_Gwaiting"
    /\ ~unblockingWaitReason(gs[gp].waitreason)
    /\ ~gcscandone[gp]
    /\ gs' = [gs EXCEPT ![gp].status = "_Gunreachable"]
    /\ UNCHANGED <<detect, allgs, modules, nArenas, work, thrown, phase, wpc,
                   wnext, wjob, invoked, gcscandone, scanned, badderef>>
    /\ UNCHANGED nonRootVars

\* ------------------------------------------- scanning: scanobject, greyobject

\* Object o has its base at address o and is one address unit long.
Objs(h) == DOMAIN h

\* s.elemsize, in address units.
elemsize == 1

\* a - b on uintptr.
WordSub(a, b) == (a - b + WordMod) % WordMod

\* findObject(p, ...): the base of the allocated object p points into, or 0.
findObject(p, h) == IF p \in Objs(h) THEN p ELSE 0

MIdle == [pc |-> "idle", kind |-> "none", b |-> 0, i |-> 0, obj |-> 0]

\* Mutant: scanobject without the test for masked pointers.
ScanWordNoMaskTest(b, n, obj) ==
    IF obj # 0 /\ WordSub(obj, b) >= n THEN "find" ELSE "next"

\* scanobject lines 1926-1947 for the slot value obj of the object at b of
\* size n: go on to the next slot, return, or look the value up.
ScanWord(b, n, obj) ==
    IF obj # 0 /\ WordSub(obj, b) >= n
    THEN IF gc_ptr_is_masked(obj) THEN "return" ELSE "find"
    ELSE "next"

\* scanblock lines 1822-1829 for the word p of a root block.
ScanBlockWord(p) == IF p # 0 THEN "find" ELSE "next"

\* The words the worker's scan iterates over.
ScanWords(m) == IF m.kind = "root" THEN rootblock ELSE heap[m.b].slots

\* gcw.putFast(obj) and, when the local buffer is full, gcw.put(obj), which
\* spills to the global pool.
PutWork(w, obj) ==
    IF Len(gcw[w]) < BufCap
    THEN /\ gcw' = [gcw EXCEPT ![w] = Append(@, obj)]
         /\ full' = full
    ELSE /\ gcw' = gcw
         /\ full' = [full EXCEPT ![obj] = @ + 1]

\* markroot of the root block: scanblock starts on its first word.
MarkrootBlock(w) ==
    /\ mpc[w].pc = "idle"
    /\ rootsleft
    /\ rootsleft' = FALSE
    /\ mpc' = [mpc EXCEPT ![w] = [pc |-> "scan", kind |-> "root", b |-> 0,
                                   i |-> 1, obj |-> 0]]
    /\ UNCHANGED <<heap, rootblock, marked, gcw, full, looked, tagseen>>
    /\ UNCHANGED nonHeapVars

\* gcDrain lines 1669-1688 with local work: gcw.balance() hands the oldest
\* item to the global pool when that is empty and more than one item is
\* local, then gcw.tryGetFast() takes the newest.
GetLocal(w) ==
    /\ mpc[w].pc = "idle"
    /\ gcw[w] # <<>>
    /\ LET bal == (\A o \in Objs(heap) : full[o] = 0) /\ Len(gcw[w]) > 1
           buf == IF bal THEN Tail(gcw[w]) ELSE gcw[w]
           b == buf[Len(buf)]
       IN  /\ full' = IF bal THEN [full EXCEPT ![Head(gcw[w])] = @ + 1] ELSE full
           /\ gcw' = [gcw EXCEPT ![w] = SubSeq(buf, 1, Len(buf) - 1)]
           /\ mpc' = [mpc EXCEPT ![w] = [pc |-> "scan", kind |-> "obj", b |-> b,
                                          i |-> 1, obj |-> 0]]
    /\ UNCHANGED <<heap, rootblock, rootsleft, marked, looked, tagseen>>
    /\ UNCHANGED nonHeapVars

\* gcDrain lines 1674-1688 without local work: gcw.tryGet() takes an item
\* from the global pool.
GetGlobal(w) ==
    /\ mpc[w].pc = "idle"
    /\ gcw[w] = <<>>
    /\ \E b \in Objs(heap) :
         /\ full[b] > 0
         /\ full' = [full EXCEPT ![b] = @ - 1]
         /\ mpc' = [mpc EXCEPT ![w] = [pc |-> "scan", kind |-> "obj", b |-> b,
                                        i |-> 1, obj |-> 0]]
    /\ UNCHANGED <<heap, rootblock, rootsleft, marked, gcw, looked, tagseen>>
    /\ UNCHANGED nonHeapVars

\* One slot of scanobject's loop (lines 1903-1948), or one word of
\* scanblock's (lines 1812-1834): read the word, filter it, look it up with
\* findObject and, in greyobject, read the mark bit (line 2089).
ScanSlot(w) ==
    /\ mpc[w].pc = "scan"
    /\ LET m == mpc[w]
           words == ScanWords(m)
       IN  IF m.i > Len(words)
           THEN \* no more pointers: the scan of this object or block is over
                /\ mpc' = [mpc EXCEPT ![w] = MIdle]
                /\ UNCHANGED <<looked, tagseen>>
           ELSE
           LET p == words[m.i]
               what == IF m.kind = "root" THEN ScanBlockWord(p)
                       ELSE ScanWord(m.b, elemsize, p)
               obj == findObject(p, heap)
           IN  /\ tagseen' = IF m.kind = "obj" /\ gc_ptr_is_masked(p)
                             THEN tagseen \cup {p} ELSE tagseen
               /\ looked' = IF m.kind = "obj" /\ what = "find"
                            THEN looked \cup {p} ELSE looked
               /\ mpc' = [mpc EXCEPT ![w] =
                            IF what = "return" THEN MIdle
                            ELSE IF what = "find" /\ obj # 0 /\ ~marked[obj]
                            THEN [m EXCEPT !.pc = "grey", !.obj = obj]
                            ELSE [m EXCEPT !.i = @ + 1]]
    /\ UNCHANGED <<heap, rootblock, rootsleft, marked, gcw, full>>
    /\ UNCHANGED nonHeapVars

\* Mutant: greyobject enqueues noscan objects as well.
GreySetEnqueuesNoscan(w) ==
    /\ mpc[w].pc = "grey"
    /\ LET m == mpc[w]
       IN  /\ marked' = [marked EXCEPT ![m.obj] = TRUE]
           /\ PutWork(w, m.obj)
           /\ mpc' = [mpc EXCEPT ![w] = [m EXCEPT !.pc = "scan", !.i = @ + 1,
                                                   !.obj = 0]]
    /\ UNCHANGED <<heap, rootblock, rootsleft, looked, tagseen>>
    /\ UNCHANGED nonHeapVars

\* Mutant: the mark bit is set by a test-and-set and the worker that finds
\* it set does not enqueue.
GreySetTestsAgain(w) ==
    /\ mpc[w].pc = "grey"
    /\ LET m == mpc[w]
       IN  /\ marked' = [marked EXCEPT ![m.obj] = TRUE]
           /\ IF heap[m.obj].noscan \/ marked[m.obj]
              THEN UNCHANGED <<gcw, full>>
              ELSE PutWork(w, m.obj)
           /\ mpc' = [mpc EXCEPT ![w] = [m EXCEPT !.pc = "scan", !.i = @ + 1,
                                                   !.obj = 0]]
    /\ UNCHANGED <<heap, rootblock, rootsleft, looked, tagseen>>
    /\ UNCHANGED nonHeapVars

\* greyobject lines 2092-2116, after the mark bit was read as clear: set it,
\* and enqueue the object unless it is noscan.
GreySet(w) ==
    /\ mpc[w].pc = "grey"
    /\ LET m == mpc[w]
       IN  /\ marked' = [marked EXCEPT ![m.obj] = TRUE]
           /\ IF heap[m.obj].noscan
              THEN UNCHANGED <<gcw, full>>
              ELSE PutWork(w, m.obj)
           /\ mpc' = [mpc EXCEPT ![w] = [m EXCEPT !.pc = "scan", !.i = @ + 1,
                                                   !.obj = 0]]
    /\ UNCHANGED <<heap, rootblock, rootsleft, looked, tagseen>>
    /\ UNCHANGED nonHeapVars

\* ------------------------------------------------ sudogs and the sema treap

\* The operators of this part take and return the reclaimer's world W: a
\* record of the fields gp (goroutines), sd (sudogs), treap, nwait, head, tail
\* (notifyList), q (channel queues), pool, gfree, thrown and target.
\* A nil pointer is 0.

\* A sudog fresh from acquireSudog.
sudogZero ==
    [g |-> 0, elem |-> 0, ticket |-> 0, parent |-> 0, prev |-> 0, next |-> 0,
     waitlink |-> 0, waittail |-> 0, c |-> 0, isSelect |-> FALSE]

\* The element of a one-element set. Only({e(v) : v \in {x}}) is e of the
\* value of x, with x computed once, before e uses it.
Only(S) == CHOOSE r \in S : TRUE

\* throw(msg): the first throw stops the program.
Throw(W, msg) == IF W.thrown = "none" THEN [W EXCEPT !.thrown = msg] ELSE W

\* ps, a **sudog: &root.treap, &s.prev or &s.next.
PRoot == [at |-> "treap", s |-> 0]
PPrev(s) == [at |-> "prev", s |-> s]
PNext(s) == [at |-> "next", s |-> s]

\* *ps
PLoad(W, ps) ==
    CASE ps.at = "treap" -> W.treap
      [] ps.at = "prev" -> W.sd[ps.s].prev
      [] OTHER -> W.sd[ps.s].next

\* *ps = v
PStore(W, ps, v) ==
    CASE ps.at = "treap" -> [W EXCEPT !.treap = v]
      [] ps.at = "prev" -> [W EXCEPT !.sd[ps.s].prev = v]
      [] OTHER -> [W EXCEPT !.sd[ps.s].next = v]

\* The parent's link to x, or root.treap, is redirected to y.
Reparent(W, p, x, y, msg) ==
    IF p = 0 THEN [W EXCEPT !.treap = y]
    ELSE IF W.sd[p].prev = x THEN [W EXCEPT !.sd[p].prev = y]
    ELSE IF W.sd[p].next # x THEN Throw(W, msg)
    ELSE [W EXCEPT !.sd[p].next = y]

\* root.rotateLeft(x): p -> (x a (y b c)) becomes p -> (y (x a b) c).
rotateLeft(W, x) ==
    LET p == W.sd[x].parent
        y == W.sd[x].next
        b == W.sd[y].prev
        W1 == [W EXCEPT !.sd[y].prev = x, !.sd[x].parent = y, !.sd[x].next = b]
        W2 == IF b # 0 THEN [W1 EXCEPT !.sd[b].parent = x] ELSE W1
        W3 == [W2 EXCEPT !.sd[y].parent = p]
    IN  Reparent(W3, p, x, y, "semaRoot rotateLeft")

\* root.rotateRight(y): p -> (y (x a b) c) becomes p -> (x a (y b c)).
rotateRight(W, y) ==
    LET p == W.sd[y].parent
        x == W.sd[y].prev
        b == W.sd[x].next
        W1 == [W EXCEPT !.sd[x].next = y, !.sd[y].parent = x, !.sd[y].prev = b]
        W2 == IF b # 0 THEN [W1 EXCEPT !.sd[b].parent = y] ELSE W1
        W3 == [W2 EXCEPT !.sd[x].parent = p]
    IN  Reparent(W3, p, y, x, "semaRoot rotateRight")

\* The search of root.queue for addr: where it ends, the last node passed
\* and the node found.
RECURSIVE queueWalk(_, _, _, _)
queueWalk(W, pt, last, addr) ==
    LET t == PLoad(W, pt)
    IN  IF t = 0 \/ W.sd[t].elem = addr
        THEN [pt |-> pt, last |-> last, t |-> t]
        ELSE queueWalk(W, IF addr < W.sd[t].elem THEN PPrev(t) ELSE PNext(t), t, addr)

\* root.queue: rotate s up into the tree according to its ticket.
RECURSIVE rotateUp(_, _)
rotateUp(W, s) ==
    LET p == W.sd[s].parent
    IN  IF W.thrown = "none" /\ p # 0 /\ W.sd[p].ticket > W.sd[s].ticket
        THEN IF W.sd[p].prev = s
             THEN Only({rotateUp(W1, s) : W1 \in {rotateRight(W, p)}})
             ELSE Only({rotateUp(W1, s) : W1 \in {rotateLeft(W, p)}})
        ELSE W

\* root.queue(addr, s, lifo = false) called by the goroutine g, with the
\* ticket cheaprand() draws: s joins the end of addr's wait list, or becomes
\* a new node of the treap.
queue(W, addr, s, g, ticket) ==
    LET W0 == [W EXCEPT !.sd[s].g = g, !.sd[s].elem = addr,
                        !.sd[s].next = 0, !.sd[s].prev = 0]
        f == queueWalk(W0, PRoot, 0, addr)
    IN  IF f.t # 0
        THEN LET t == f.t
                 W1 == IF W0.sd[t].waittail = 0
                       THEN [W0 EXCEPT !.sd[t].waitlink = s]
                       ELSE [W0 EXCEPT !.sd[W0.sd[t].waittail].waitlink = s]
             IN  [W1 EXCEPT !.sd[t].waittail = s, !.sd[s].waitlink = 0]
        ELSE Only({rotateUp(W1, s) :
                     W1 \in {PStore([W0 EXCEPT !.sd[s].ticket = ticket,
                                               !.sd[s].parent = f.last], f.pt, s)}})

\* gc_sema_dequeue lines 297-313: the place of the node of masked_addr, or a
\* nil place.
RECURSIVE semaSearch(_, _, _)
semaSearch(W, ps, masked_addr) ==
    LET s == PLoad(W, ps)
    IN  IF s = 0 \/ W.sd[s].elem = masked_addr
        THEN ps
        ELSE semaSearch(W, IF masked_addr < W.sd[s].elem THEN PPrev(s) ELSE PNext(s),
                        masked_addr)

\* gc_sema_dequeue line 329: walk the wait list to the sudog of gp.
RECURSIVE chainFind(_, _, _, _)
chainFind(sd, target, targetPred, gp) ==
    IF target # 0 /\ sd[target].g # gp
    THEN chainFind(sd, sd[target].waitlink, target, gp)
    ELSE [target |-> target, targetPred |-> targetPred]

\* Mutant: the rotation goes right whenever there is a prev.
RECURSIVE rotateDownRightFirst(_, _)
rotateDownRightFirst(W, target) ==
    LET t == W.sd[target]
    IN  IF W.thrown = "none" /\ (t.next # 0 \/ t.prev # 0)
        THEN IF t.prev # 0
             THEN Only({rotateDownRightFirst(W1, target) : W1 \in {rotateRight(W, target)}})
             ELSE Only({rotateDownRightFirst(W1, target) : W1 \in {rotateLeft(W, target)}})
        ELSE W

\* gc_sema_dequeue lines 373-379: rotate target down to be a leaf.
RECURSIVE rotateDown(_, _)
rotateDown(W, target) ==
    LET t == W.sd[target]
    IN  IF W.thrown = "none" /\ (t.next # 0 \/ t.prev # 0)
        THEN IF t.next = 0 \/ (t.prev # 0 /\ W.sd[t.prev].ticket < W.sd[t.next].ticket)
             THEN Only({rotateDown(W1, target) : W1 \in {rotateRight(W, target)}})
             ELSE Only({rotateDown(W1, target) : W1 \in {rotateLeft(W, target)}})
        ELSE W

\* gc_sema_dequeue lines 391-400: clear target, count it out and return it.
semaReturn(W, target) ==
    [W EXCEPT !.sd[target].parent = 0, !.sd[target].elem = 0,
              !.sd[target].next = 0, !.sd[target].prev = 0,
              !.sd[target].ticket = 0,
              !.nwait = @ - 1, !.target = target]

\* Mutant: t always takes the waittail of s.
semaPromoteKeepsTail(W, ps, s, t) ==
    LET W1 == PStore(W, ps, t)
        W2 == [W1 EXCEPT !.sd[t].ticket = W1.sd[s].ticket,
                         !.sd[t].parent = W1.sd[s].parent,
                         !.sd[t].prev = W1.sd[s].prev]
        W3 == IF W2.sd[t].prev # 0
              THEN [W2 EXCEPT !.sd[W2.sd[t].prev].parent = t] ELSE W2
        W4 == [W3 EXCEPT !.sd[t].next = W3.sd[s].next]
        W5 == IF W4.sd[t].next # 0
              THEN [W4 EXCEPT !.sd[W4.sd[t].next].parent = t] ELSE W4
    IN  [W5 EXCEPT !.sd[t].waittail = W5.sd[s].waittail]

\* gc_sema_dequeue lines 340-358: t, the second of the wait list, takes the
\* place of its head s.
semaPromote(W, ps, s, t) ==
    LET W1 == PStore(W, ps, t)
        W2 == [W1 EXCEPT !.sd[t].ticket = W1.sd[s].ticket,
                         !.sd[t].parent = W1.sd[s].parent,
                         !.sd[t].prev = W1.sd[s].prev]
        W3 == IF W2.sd[t].prev # 0
              THEN [W2 EXCEPT !.sd[W2.sd[t].prev].parent = t] ELSE W2
        W4 == [W3 EXCEPT !.sd[t].next = W3.sd[s].next]
        W5 == IF W4.sd[t].next # 0
              THEN [W4 EXCEPT !.sd[W4.sd[t].next].parent = t] ELSE W4
    IN  IF W5.sd[t].waitlink # 0
        THEN [W5 EXCEPT !.sd[t].waittail = W5.sd[s].waittail]
        ELSE [W5 EXCEPT !.sd[t].waittail = 0]

\* Mutant: unlinking target cuts the wait list off behind targetPred.
semaUnlinkDropsRest(W, s, target, targetPred) ==
    [W EXCEPT !.sd[targetPred].waitlink = 0, !.sd[s].waittail = targetPred]

\* gc_sema_dequeue lines 360-364: unlink target, which is not the head s.
semaUnlink(W, s, target, targetPred) ==
    LET W1 == [W EXCEPT !.sd[targetPred].waitlink = W.sd[target].waitlink]
    IN  IF W1.sd[targetPred].waitlink = 0
        THEN [W1 EXCEPT !.sd[s].waittail = targetPred]
        ELSE W1

\* gc_sema_dequeue lines 380-389: remove target, now a leaf.
semaDetach(W, target) ==
    LET p == W.sd[target].parent
    IN  IF p # 0
        THEN IF W.sd[p].prev = target
             THEN [W EXCEPT !.sd[p].prev = 0]
             ELSE [W EXCEPT !.sd[p].next = 0]
        ELSE [W EXCEPT !.treap = 0]

\* gc_sema_dequeue(gp, addr): the world after it, its result in target.
gc_sema_dequeue(W, gp, addr, det) ==
    LET masked_addr == gc_mask_ptr(addr, det)
        ps == semaSearch(W, PRoot, masked_addr)
        s == PLoad(W, ps)
    IN  IF s = 0 THEN Throw(W, "Sema addr not found in the semTable!")
        ELSE IF W.sd[s].waitlink # 0
        THEN LET t == W.sd[s].waitlink
                 f == chainFind(W.sd, s, 0, gp)
                 target == f.target
             IN  IF target = 0
                 THEN Throw(W, "The unreachable goroutine not found in the semTable!")
                 ELSE LET W1 == IF target = s
                                THEN semaPromote(W, ps, s, t)
                                ELSE semaUnlink(W, s, target, f.targetPred)
                      IN  semaReturn([W1 EXCEPT !.sd[target].waitlink = 0,
                                                !.sd[target].waittail = 0], target)
        ELSE IF W.sd[s].g # gp
        THEN Throw(W, "Unreachable g not found in the semTable")
        ELSE Only({IF W1.thrown # "none" THEN W1
                   ELSE semaReturn(semaDetach(W1, s), s) :
                     W1 \in {rotateDown(W, s)}})

\* ------------------------------------------- reclamation: gcGoexit, gc_goexit0

\* The wait words goroutines take semaphores on, and the tickets cheaprand()
\* draws (always odd).
SemaAddrs == {1, 2, 3}
Tickets == {1, 3}

\* The one notifyList's address, and the channels.
notifyListAddr == Cardinality(SemaAddrs) + 1
Chans == {1, 2}

\* The goroutines of the reclaimer's world, and the sudogs they own: a
\* goroutine parks with one sudog, or, in a select, with two.
Fibers == 1..NFib
FirstSudog(g) == 2 * g - 1
SecondSudog(g) == 2 * g

\* notifyListWait: s joins the end of the list.
notifyListWait(W, s, g) ==
    LET W0 == [W EXCEPT !.sd[s].g = g, !.sd[s].next = 0]
        W1 == IF W0.tail = 0 THEN [W0 EXCEPT !.head = s]
              ELSE [W0 EXCEPT !.sd[W0.tail].next = s]
    IN  [W1 EXCEPT !.tail = s]

\* The walk of the notifyList to the sudog of gp.
RECURSIVE notifyFind(_, _, _, _)
notifyFind(sd, s, p, gp) ==
    IF s # 0 /\ sd[s].g # gp
    THEN notifyFind(sd, sd[s].next, s, gp)
    ELSE [s |-> s, p |-> p]

\* gc_notifyListNotifyOne(notifier, gp): unlink the sudog of gp from the
\* list and return it in target, nil when there is none.
gc_notifyListNotifyOne(W, gp) ==
    LET f == notifyFind(W.sd, W.head, 0, gp)
    IN  IF f.s = 0 THEN [W EXCEPT !.target = 0]
        ELSE LET n == W.sd[f.s].next
                 W1 == IF f.p = 0 THEN [W EXCEPT !.head = n]
                       ELSE [W EXCEPT !.sd[f.p].next = n]
                 W2 == IF n = 0 THEN [W1 EXCEPT !.tail = f.p] ELSE W1
             IN  [W2 EXCEPT !.sd[f.s].next = 0, !.target = f.s]

\* c.recvq.enqueue(sgp)
enqueue(W, c, sgp) ==
    LET x == W.q[c].last
    IN  IF x = 0
        THEN [W EXCEPT !.sd[sgp].next = 0, !.sd[sgp].prev = 0,
                       !.q[c].first = sgp, !.q[c].last = sgp]
        ELSE [W EXCEPT !.sd[sgp].next = 0, !.sd[sgp].prev = x,
                       !.sd[x].next = sgp, !.q[c].last = sgp]

\* releaseSudog(s): s goes to the pool; the pool remembers the g it held.
releaseSudog(W, s) == [W EXCEPT !.pool = Append(@, [s |-> s, g |-> W.sd[s].g])]

\* gc_goexit0 lines 432-441: dequeue gp from its semaphore.
goexitSema(W, gp, det) ==
    IF W.gp[gp].waiting_sema = 0 THEN W
    ELSE Only({IF W1.thrown # "none" THEN W1
               ELSE IF W1.sd[W1.target].g # gp
               THEN Throw(W1, "Targetted wrong sudog!")
               ELSE releaseSudog([W1 EXCEPT !.sd[W1.target].g = 0], W1.target) :
                 W1 \in {gc_sema_dequeue(W, gp,
                            gc_undo_mask_ptr(W.gp[gp].waiting_sema), det)}})

\* gc_goexit0 lines 443-452: remove gp from its notifier.
goexitNotifier(W, gp) ==
    IF W.gp[gp].waiting_notifier = 0 THEN W
    ELSE Only({IF W1.target = 0 \/ W1.sd[W1.target].g # gp
               THEN Throw(W1, "Targetted wrong sudog!")
               ELSE releaseSudog([W1 EXCEPT !.sd[W1.target].g = 0], W1.target) :
                 W1 \in {gc_notifyListNotifyOne(W, gp)}})

\* gc_goexit0 lines 474-483: clear and release the sudogs of gp.waiting.
RECURSIVE goexitWaiting(_, _)
goexitWaiting(W, sg) ==
    IF sg = 0 THEN W
    ELSE Only({goexitWaiting(W1, W.sd[sg].waitlink) :
                 W1 \in {releaseSudog([W EXCEPT !.sd[sg].isSelect = FALSE,
                                                !.sd[sg].elem = 0,
                                                !.sd[sg].c = 0,
                                                !.sd[sg].waitlink = 0,
                                                !.sd[sg].next = 0,
                                                !.sd[sg].prev = 0], sg)}})

\* gc_goexit0 lines 454-500: blank the g, release gp.waiting, gfput.
goexitRest(W, gp) ==
    IF W.thrown # "none" THEN W
    ELSE Only({[W4 EXCEPT !.gp[gp].waiting = 0, !.gfree = @ \cup {gp}] :
                 W4 \in {goexitWaiting(W3, W3.gp[gp].waiting) :
                           W3 \in {[W EXCEPT !.gp[gp].waitreason = "waitReasonZero",
                                             !.gp[gp].waiting_sema = 0,
                                             !.gp[gp].waiting_notifier = 0]}}})

\* gc_goexit0(gp)
gc_goexit0(W, gp, det) ==
    IF W.gp[gp].status # "_Gunreachable"
    THEN Throw(W, "Unreachable goroutine changed status!")
    ELSE
    Only({goexitRest(W2, gp) :
            W2 \in {IF W1.thrown # "none" THEN W1 ELSE goexitNotifier(W1, gp) :
                      W1 \in {goexitSema(W0, gp, det) :
                                W0 \in {[W EXCEPT !.gp[gp].status = "_Gdead"]}}}})

\* The reclaimer's world in the current state.
World ==
    [gp |-> parked, sd |-> sudog, treap |-> semaRoot.treap,
     nwait |-> semaRoot.nwait, head |-> notifier.head, tail |-> notifier.tail,
     q |-> hchan, pool |-> pool, gfree |-> gfree, thrown |-> reclaimThrown,
     target |-> 0]

\* How gp is parked: as the lone waiter of a treap node that is a leaf or has
\* one or two children, as the head or as a later member of a node's wait
\* list, on the notifyList, or on channels.
parkCase(gp) ==
    IF parked[gp].waiting_sema # 0
    THEN LET s == PLoad(World, semaSearch(World, PRoot, parked[gp].waiting_sema))
         IN  IF s = 0 \/ sudog[s].g # gp THEN "member"
             ELSE IF sudog[s].waitlink # 0 THEN "head"
             ELSE IF sudog[s].prev # 0 /\ sudog[s].next # 0 THEN "two children"
             ELSE IF sudog[s].prev # 0 \/ sudog[s].next # 0 THEN "one child"
             ELSE "leaf"
    ELSE IF parked[gp].waiting_notifier # 0 THEN "notifier"
    ELSE "waiting"

\* markroot line 602 / gcGoexit(gp): the worker reclaims the unreachable
\* goroutine gp; gp has no defers to pop.
gcGoexit(gp) ==
    /\ reclaimThrown = "none"
    /\ detect = 0
    /\ parked[gp].status = "_Gunreachable"
    /\ \E W \in {gc_goexit0(World, gp, detect)} :
           /\ parked' = W.gp
           /\ sudog' = W.sd
           /\ semaRoot' = [treap |-> W.treap, nwait |-> W.nwait]
           /\ notifier' = [head |-> W.head, tail |-> W.tail]
           /\ hchan' = W.q
           /\ pool' = W.pool
           /\ gfree' = W.gfree
           /\ reclaimLog' = Append(reclaimLog, [g |-> gp, how |-> parkCase(gp)])
           /\ reclaimThrown' = W.thrown
    /\ UNCHANGED nonReclaimVars

\* ------------------------------------- assists: gcAssistAlloc, gcFlushBgCredit

\* The mutators that assist.
Mutators == 1..NAssist

\* gcOverAssistWork (mgc.go): the least scan work an assist takes on.
gcOverAssistWork == 65536

\* gcCreditSlack (mgc.go): the scan work a worker gathers before it flushes.
gcCreditSlack == 2000

\* int64(float64(n) / float64(d)): the conversion truncates towards zero.
TruncDiv(n, d) == IF n >= 0 THEN n \div d ELSE -((-n) \div d)

\* int64(float64(x) * assistBytesPerWork), with the rate r = <<bytes, work>>.
WorkToBytes(x, r) == TruncDiv(x * r[1], r[2])

\* int64(float64(x) * assistWorkPerByte): assistWorkPerByte is the inverse
\* of assistBytesPerWork.
BytesToWork(x, r) == TruncDiv(x * r[2], r[1])

\* The assist state the operators below work on.
AssistWorld ==
    [q |-> assistQueue, bytes |-> gcAssistBytes, credit |-> bgScanCredit,
     pc |-> apc]

\* ready(gp, 0, false): gp is runnable again.
ready(A, gp) == [A EXCEPT !.pc[gp] = "ready"]

\* work.assistQueue.q.pushBack(gp)
pushBack(q, gp) == Append(q, gp)

\* Mutant: a partly paid assist stays at the head of the queue.
RECURSIVE flushLoopRequeuesAtHead(_, _)
flushLoopRequeuesAtHead(A, scanBytes) ==
    IF A.q # <<>> /\ scanBytes > 0
    THEN LET gp == Head(A.q)
             popped == [A EXCEPT !.q = Tail(A.q)]
         IN  IF scanBytes + A.bytes[gp] >= 0
             THEN flushLoopRequeuesAtHead(ready([popped EXCEPT !.bytes[gp] = 0], gp),
                                          scanBytes + A.bytes[gp])
             ELSE [st |-> [A EXCEPT !.bytes[gp] = @ + scanBytes], scanBytes |-> 0]
    ELSE [st |-> A, scanBytes |-> scanBytes]

\* Mutant: an assist whose debt the credit does not cover is moved to the
\* tail without being paid the credit.
RECURSIVE flushLoopDropsPartCredit(_, _)
flushLoopDropsPartCredit(A, scanBytes) ==
    IF A.q # <<>> /\ scanBytes > 0
    THEN LET gp == Head(A.q)
             popped == [A EXCEPT !.q = Tail(A.q)]
         IN  IF scanBytes + A.bytes[gp] >= 0
             THEN flushLoopDropsPartCredit(ready([popped EXCEPT !.bytes[gp] = 0], gp),
                                           scanBytes + A.bytes[gp])
             ELSE [st |-> [popped EXCEPT !.q = pushBack(@, gp)], scanBytes |-> 0]
    ELSE [st |-> A, scanBytes |-> scanBytes]

\* Mutant: an assist whose debt the credit does not cover is paid what there
\* is and made runnable.
RECURSIVE flushLoopReadiesUnpaid(_, _)
flushLoopReadiesUnpaid(A, scanBytes) ==
    IF A.q # <<>> /\ scanBytes > 0
    THEN LET gp == Head(A.q)
             popped == [A EXCEPT !.q = Tail(A.q)]
         IN  IF scanBytes + A.bytes[gp] >= 0
             THEN flushLoopReadiesUnpaid(ready([popped EXCEPT !.bytes[gp] = 0], gp),
                                         scanBytes + A.bytes[gp])
             ELSE [st |-> ready([popped EXCEPT !.bytes[gp] = @ + scanBytes], gp),
                   scanBytes |-> 0]
    ELSE [st |-> A, scanBytes |-> scanBytes]

\* gcFlushBgCredit, lines 1163-1189: the loop over the queued assists.
RECURSIVE flushLoop(_, _)
flushLoop(A, scanBytes) ==
    IF A.q # <<>> /\ scanBytes > 0
    THEN LET gp == Head(A.q)
             popped == [A EXCEPT !.q = Tail(A.q)]
         IN  IF scanBytes + A.bytes[gp] >= 0
             THEN flushLoop(ready([popped EXCEPT !.bytes[gp] = 0], gp),
                            scanBytes + A.bytes[gp])
             ELSE [st |-> [popped EXCEPT !.bytes[gp] = @ + scanBytes,
                                         !.q = pushBack(@, gp)],
                   scanBytes |-> 0]
    ELSE [st |-> A, scanBytes |-> scanBytes]

\* gcFlushBgCredit(scanWork), lines 1149-1198.
gcFlushBgCredit(A, scanWork, r) ==
    IF A.q = <<>>
    THEN [A EXCEPT !.credit = @ + scanWork]
    ELSE LET res == flushLoop(A, WorkToBytes(scanWork, r))
         IN  IF res.scanBytes > 0
             THEN [res.st EXCEPT !.credit = @ + BytesToWork(res.scanBytes, r)]
             ELSE res.st

\* A background worker flushes scanWork units of credit: gcDrain's lines
\* 1696 and 1716.
FlushWorks == {100000, 300000}

MaxFlush == 1

\* How often a preempted assist yields and retries.
MaxYield == 1

FlushCredit(scanWork) ==
    /\ flushes < MaxFlush
    /\ flushes' = flushes + 1
    /\ LET A == gcFlushBgCredit(AssistWorld, scanWork, bytesPerWork)
       IN  /\ assistQueue' = A.q
           /\ gcAssistBytes' = A.bytes
           /\ bgScanCredit' = A.credit
           /\ apc' = A.pc
    /\ UNCHANGED <<bytesPerWork, limiting, gcBlackenEnabled, yields>>
    /\ UNCHANGED nonAssistVars

\* The flush rounds a queue of parked assists is followed through.
MaxRounds == 2

\* gcFlushBgCredit(scanWork) called on a queue of parked assists, at most
\* MaxRounds times.
FlushRound(scanWork) ==
    /\ flushes < MaxRounds
    /\ flushes' = flushes + 1
    /\ LET A == gcFlushBgCredit(AssistWorld, scanWork, bytesPerWork)
       IN  /\ assistQueue' = A.q
           /\ gcAssistBytes' = A.bytes
           /\ bgScanCredit' = A.credit
           /\ apc' = A.pc
    /\ UNCHANGED <<bytesPerWork, limiting, gcBlackenEnabled, yields>>
    /\ UNCHANGED nonAssistVars

\* gcAssistAlloc(gp), lines 793-801: mallocgc calls it for a mutator in
\* debt; it does nothing in a non-preemptible context.
gcAssistAlloc(gp) ==
    /\ apc[gp] = "idle"
    /\ gcAssistBytes[gp] < 0
    /\ \E fragile \in BOOLEAN :
         apc' = [apc EXCEPT ![gp] = IF fragile THEN "returned" ELSE "retry"]
    /\ UNCHANGED <<assistQueue, gcAssistBytes, bgScanCredit, bytesPerWork, limiting,
                   gcBlackenEnabled, flushes, yields>>
    /\ UNCHANGED nonAssistVars

\* Mutant: gcOverAssistWork is added to the scan work that pays the debt.
assistNeedAddsOver(debtBytes, r) ==
    [scanWork |-> BytesToWork(debtBytes, r) + gcOverAssistWork,
     debtBytes |-> debtBytes + WorkToBytes(gcOverAssistWork, r)]

\* Lines 852-859: the scan work that pays the debt, at least
\* gcOverAssistWork.
assistNeed(debtBytes, r) ==
    IF BytesToWork(debtBytes, r) < gcOverAssistWork
    THEN [scanWork |-> gcOverAssistWork, debtBytes |-> WorkToBytes(gcOverAssistWork, r)]
    ELSE [scanWork |-> BytesToWork(debtBytes, r), debtBytes |-> debtBytes]

\* Lines 867-880: the credit taken from bgScanCredit and what it adds to
\* gp.gcAssistBytes.
assistSteal(need, credit, r) ==
    IF credit > 0
    THEN IF credit < need.scanWork
         THEN [stolen |-> credit, bytes |-> 1 + WorkToBytes(credit, r)]
         ELSE [stolen |-> need.scanWork, bytes |-> need.debtBytes]
    ELSE [stolen |-> 0, bytes |-> 0]

\* gcAssistAlloc1(gp, scanWork), lines 1014-1092: what it makes of
\* gp.gcAssistBytes when gcDrainN does workDone units.  work.nwait is
\* decremented and incremented again.
gcAssistAlloc1(bytes, blacken, workDone, r) ==
    IF ~blacken THEN 0 ELSE bytes + 1 + WorkToBytes(workDone, r)

\* Mutant: the limiter is not consulted.
limiterStopsNever(lim) == FALSE

\* Line 823: whether the assist gives up at the retry label.
limiterStops(lim) == lim

\* gcAssistAlloc from the retry label to the return of gcAssistAlloc1, lines
\* 822-952: return if the limiter is on; otherwise steal credit, return if
\* that pays the debt, and do the rest in gcAssistAlloc1, where gcDrainN does
\* none of the work (line 1747: preempted, limiter on, nothing to do) or all
\* that was asked.
AssistRetry(gp) ==
    /\ apc[gp] = "retry"
    /\ IF limiterStops(limiting)
       THEN /\ apc' = [apc EXCEPT ![gp] = "returned"]
            /\ UNCHANGED <<gcAssistBytes, bgScanCredit>>
       ELSE LET need == assistNeed(-gcAssistBytes[gp], bytesPerWork)
                steal == assistSteal(need, bgScanCredit, bytesPerWork)
                scanWork == need.scanWork - steal.stolen
            IN  /\ bgScanCredit' = bgScanCredit - steal.stolen
                /\ IF bgScanCredit > 0 /\ scanWork = 0
                   THEN /\ gcAssistBytes' =
                              [gcAssistBytes EXCEPT ![gp] = @ + steal.bytes]
                        /\ apc' = [apc EXCEPT ![gp] = "returned"]
                   ELSE /\ \E workDone \in {0, scanWork} :
                              gcAssistBytes' =
                                 [gcAssistBytes EXCEPT ![gp] =
                                     gcAssistAlloc1(@ + steal.bytes, gcBlackenEnabled,
                                                    workDone, bytesPerWork)]
                        /\ apc' = [apc EXCEPT ![gp] = "after"]
    /\ UNCHANGED <<assistQueue, bytesPerWork, limiting, gcBlackenEnabled, flushes, yields>>
    /\ UNCHANGED nonAssistVars

\* Mutant: gcParkAssist does not look at gcBlackenEnabled.
cycleFinishedNever(blacken) == FALSE

\* gcParkAssist, line 1113: the cycle finished while the assist was getting
\* the lock.
cycleFinished(blacken) == ~blacken

\* work.assistQueue.q as the code holds it: the gQueue's head and tail, and
\* the schedlink of every goroutine, for the queue q.
gQueueOf(q) ==
    [head |-> IF q = <<>> THEN 0 ELSE q[1],
     tail |-> IF q = <<>> THEN 0 ELSE q[Len(q)],
     schedlink |-> [gp \in Mutators |->
                      IF \E i \in 1..(Len(q) - 1) : q[i] = gp
                      THEN q[(CHOOSE i \in 1..(Len(q) - 1) : q[i] = gp) + 1]
                      ELSE 0]]

\* The goroutines a gQueue holds: the walk from gp along schedlink, of at
\* most n steps.
RECURSIVE gQueueWalk(_, _, _)
gQueueWalk(Q, gp, n) ==
    IF gp = 0 \/ n = 0 THEN <<>>
    ELSE <<gp>> \o gQueueWalk(Q, Q.schedlink[gp], n - 1)

\* gQueue.pushBack(gp) on the linked queue.
linkBack(Q, gp) ==
    LET Q1 == [Q EXCEPT !.schedlink[gp] = 0]
        Q2 == IF Q1.tail # 0 THEN [Q1 EXCEPT !.schedlink[Q1.tail] = gp]
              ELSE [Q1 EXCEPT !.head = gp]
    IN  [Q2 EXCEPT !.tail = gp]

\* Mutant: the queue is set back to oldList and the old tail keeps its link
\* to the caller.
parkBackOutKeepsLink(Q, oldList) ==
    [Q EXCEPT !.head = oldList.head, !.tail = oldList.tail]

\* gcParkAssist lines 1126-1129: work.assistQueue.q = oldList, and the old
\* tail's schedlink is cleared.
parkBackOut(Q, oldList) ==
    LET Q1 == [Q EXCEPT !.head = oldList.head, !.tail = oldList.tail]
    IN  IF oldList.tail # 0
        THEN [Q1 EXCEPT !.schedlink[oldList.tail] = 0]
        ELSE Q1

\* gcParkAssist lines 1118-1131 for the caller gp when it finds credit: gp
\* is pushed on the queue and taken back.
parkAndBackOut(q, gp) ==
    parkBackOut(linkBack(gQueueOf(q), gp), gQueueOf(q))

\* gcAssistAlloc after the assist, lines 953-985, with gcParkAssist, lines
\* 1108-1137: yield and retry if preempted, retry if credit has appeared,
\* park on the assist queue otherwise.
AssistAfter(gp) ==
    /\ apc[gp] = "after"
    /\ IF gcAssistBytes[gp] < 0
       THEN \E pre \in IF yields < MaxYield THEN BOOLEAN ELSE {FALSE} :
              IF pre
              THEN \* gp.preempt: Gosched() and retry.
                   /\ yields' = yields + 1
                   /\ apc' = [apc EXCEPT ![gp] = "retry"]
                   /\ UNCHANGED assistQueue
              ELSE /\ UNCHANGED yields
                   /\ IF cycleFinished(gcBlackenEnabled)
                      THEN /\ apc' = [apc EXCEPT ![gp] = "returned"]
                           /\ UNCHANGED assistQueue
                      ELSE IF bgScanCredit > 0
                           THEN /\ apc' = [apc EXCEPT ![gp] = "retry"]
                                /\ assistQueue' =
                                      gQueueWalk(parkAndBackOut(assistQueue, gp),
                                                 parkAndBackOut(assistQueue, gp).head,
                                                 NAssist)
                           ELSE /\ apc' = [apc EXCEPT ![gp] = "parked"]
                                /\ assistQueue' = pushBack(assistQueue, gp)
       ELSE /\ apc' = [apc EXCEPT ![gp] = "returned"]
            /\ UNCHANGED <<assistQueue, yields>>
    /\ UNCHANGED <<gcAssistBytes, bgScanCredit, bytesPerWork, limiting,
                   gcBlackenEnabled, flushes>>
    /\ UNCHANGED nonAssistVars

\* A readied assist runs again: gcParkAssist returns true and gcAssistAlloc
\* returns, lines 970-1002.
AssistResume(gp) ==
    /\ apc[gp] = "ready"
    /\ apc' = [apc EXCEPT ![gp] = "returned"]
    /\ UNCHANGED <<assistQueue, gcAssistBytes, bgScanCredit, bytesPerWork, limiting,
                   gcBlackenEnabled, flushes, yields>>
    /\ UNCHANGED nonAssistVars

\* gcCPULimiter.update (mgclimit.go) switches the limiter on.
limiterOn ==
    /\ ~limiting
    /\ limiting' = TRUE
    /\ UNCHANGED <<assistQueue, gcAssistBytes, bgScanCredit, bytesPerWork,
                   gcBlackenEnabled, apc, flushes, yields>>
    /\ UNCHANGED nonAssistVars

\* The end of the mark phase (gcMarkDone, mgc.go) stores 0 to
\* gcBlackenEnabled before it wakes the assists.
gcBlackenDisable ==
    /\ gcBlackenEnabled
    /\ gcBlackenEnabled' = FALSE
    /\ UNCHANGED <<assistQueue, gcAssistBytes, bgScanCredit, bytesPerWork, limiting,
                   apc, flushes, yields>>
    /\ UNCHANGED nonAssistVars

\* injectglist(&list): every fiber of the list is runnable again.
RECURSIVE injectglist(_, _)
injectglist(pc, list) ==
    IF list = <<>> THEN pc
    ELSE injectglist([pc EXCEPT ![Head(list)] = "ready"], Tail(list))

\* Mutant: gcWakeAllAssists pops the whole queue and makes only its head
\* runnable.
gcWakeAllAssistsHead ==
    /\ ~gcBlackenEnabled
    /\ assistQueue # <<>>
    /\ assistQueue' = <<>>
    /\ apc' = [apc EXCEPT ![Head(assistQueue)] = "ready"]
    /\ UNCHANGED <<gcAssistBytes, bgScanCredit, bytesPerWork, limiting,
                   gcBlackenEnabled, flushes, yields>>
    /\ UNCHANGED nonAssistVars

\* gcWakeAllAssists, lines 1097-1102, called once blackening is disabled:
\* the whole queue is popped and made runnable.  No assist parks after that
\* (line 1113), so the call is modelled while the queue is not empty.
gcWakeAllAssists ==
    /\ ~gcBlackenEnabled
    /\ assistQueue # <<>>
    /\ assistQueue' = <<>>
    /\ apc' = injectglist(apc, assistQueue)
    /\ UNCHANGED <<gcAssistBytes, bgScanCredit, bytesPerWork, limiting,
                   gcBlackenEnabled, flushes, yields>>
    /\ UNCHANGED nonAssistVars

\* work.nwait is a uint32; the model keeps CounterBits bits of it.
CounterBits == 2
CounterMod == 2 ^ CounterBits

\* ^uint32(0): gcBgMarkPrepare (mgc.go) sets work.nproc and work.nwait to it
\* for the mark phase, so that assists and workers can join at any time.
MaxCounter == CounterMod - 1

\* atomic.Xadd(&work.nwait, delta)
Xadd(n, delta) == (n + delta + CounterMod) % CounterMod

\* The background mark workers (gcBgMarkWorker, mgc.go).
NBg == 2

\* Mutant: the decrement of work.nwait is not checked.
decOverflowsNever(decnwait, np) == FALSE

\* Line 1040: the decrement wrapped work.nwait around.
decOverflows(decnwait, np) == decnwait = np

\* Line 1067.
incOverflows(incnwait, np) == incnwait > np

\* Mutant: every assist that goes idle counts as the last.
lastWorkerAlways(incnwait, np) == TRUE

\* Line 1073, first conjunct: this was the last worker to go idle.
lastWorker(incnwait, np) == incnwait = np

\* gcAssistAlloc1 lines 1014-1028: clear gp.param; with blackening disabled
\* forget the debt and return.
Assist1Entry(gp) ==
    /\ bpc[gp] = "entry"
    /\ barrierThrown = "none"
    /\ param' = [param EXCEPT ![gp] = FALSE]
    /\ IF ~gcBlackenEnabled
       THEN /\ gcAssistBytes' = [gcAssistBytes EXCEPT ![gp] = 0]
            /\ bpc' = [bpc EXCEPT ![gp] = "back"]
       ELSE /\ bpc' = [bpc EXCEPT ![gp] = "dec"]
            /\ UNCHANGED gcAssistBytes
    /\ UNCHANGED <<nwait, nproc, bgBusy, workAvailable, calledMarkDone, barrierThrown>>
    /\ UNCHANGED <<assistQueue, bgScanCredit, bytesPerWork, limiting, gcBlackenEnabled,
                   apc, flushes, yields>>
    /\ UNCHANGED <<rootVars, heapVars, reclaimVars, drainVars, unitVars>>

\* Lines 1039-1043: the assist leaves the idle workers.
Assist1Dec(gp) ==
    /\ bpc[gp] = "dec"
    /\ barrierThrown = "none"
    /\ LET decnwait == Xadd(nwait, -1)
       IN  /\ nwait' = decnwait
           /\ IF decOverflows(decnwait, nproc)
              THEN /\ barrierThrown' = "nwait > work.nprocs"
                   /\ UNCHANGED bpc
              ELSE /\ bpc' = [bpc EXCEPT ![gp] = "drain"]
                   /\ UNCHANGED barrierThrown
    /\ UNCHANGED <<nproc, param, bgBusy, workAvailable, calledMarkDone>>
    /\ UNCHANGED <<assistVars, rootVars, heapVars, reclaimVars, drainVars, unitVars>>

\* The scan work gcDrainN may report.
WorkDones == {0, 1000}

\* Lines 1046-1062: gcDrainN does some of the work, which may use up or
\* produce mark work, and the assist is credited for it.
Assist1Drain(gp) ==
    /\ bpc[gp] = "drain"
    /\ barrierThrown = "none"
    /\ \E workDone \in WorkDones :
         gcAssistBytes' = [gcAssistBytes EXCEPT ![gp] =
                              gcAssistAlloc1(@, TRUE, workDone, bytesPerWork)]
    /\ workAvailable' \in BOOLEAN
    /\ bpc' = [bpc EXCEPT ![gp] = "inc"]
    /\ UNCHANGED <<nwait, nproc, param, bgBusy, calledMarkDone, barrierThrown>>
    /\ UNCHANGED <<assistQueue, bgScanCredit, bytesPerWork, limiting, gcBlackenEnabled,
                   apc, flushes, yields>>
    /\ UNCHANGED <<rootVars, heapVars, reclaimVars, drainVars, unitVars>>

\* Lines 1066-1073: the assist goes idle again.
Assist1Inc(gp) ==
    /\ bpc[gp] = "inc"
    /\ barrierThrown = "none"
    /\ LET incnwait == Xadd(nwait, 1)
       IN  /\ nwait' = incnwait
           /\ IF incOverflows(incnwait, nproc)
              THEN /\ barrierThrown' = "work.nwait > work.nproc"
                   /\ UNCHANGED bpc
              ELSE /\ bpc' = [bpc EXCEPT ![gp] =
                                 IF lastWorker(incnwait, nproc) THEN "poll" ELSE "back"]
                   /\ UNCHANGED barrierThrown
    /\ UNCHANGED <<nproc, param, bgBusy, workAvailable, calledMarkDone>>
    /\ UNCHANGED <<assistVars, rootVars, heapVars, reclaimVars, drainVars, unitVars>>

\* Lines 1073-1079: the last worker to go idle asks gcMarkWorkAvailable(nil)
\* and sets gp.param if there is no work.
Assist1Poll(gp) ==
    /\ bpc[gp] = "poll"
    /\ barrierThrown = "none"
    /\ param' = [param EXCEPT ![gp] = ~workAvailable]
    /\ bpc' = [bpc EXCEPT ![gp] = "back"]
    /\ UNCHANGED <<nwait, nproc, bgBusy, workAvailable, calledMarkDone, barrierThrown>>
    /\ UNCHANGED <<assistVars, rootVars, heapVars, reclaimVars, drainVars, unitVars>>

\* gcAssistAlloc lines 947-951, back from gcAssistAlloc1: read and clear
\* gp.param and call gcMarkDone if it was set.  gcMarkDone (mgc.go) ends
\* the mark phase, disabling blackening, or finds more work and returns.
AssistBack(gp) ==
    /\ bpc[gp] = "back"
    /\ barrierThrown = "none"
    /\ LET completed == param[gp]
       IN  /\ param' = [param EXCEPT ![gp] = FALSE]
           /\ calledMarkDone' = IF completed THEN calledMarkDone \cup {gp}
                                ELSE calledMarkDone
           /\ \E ends \in IF completed THEN BOOLEAN ELSE {FALSE} :
                gcBlackenEnabled' = (gcBlackenEnabled /\ ~ends)
    /\ bpc' = [bpc EXCEPT ![gp] = "returned"]
    /\ UNCHANGED <<nwait, nproc, bgBusy, workAvailable, barrierThrown>>
    /\ UNCHANGED <<assistQueue, gcAssistBytes, bgScanCredit, bytesPerWork, limiting,
                   apc, flushes, yields>>
    /\ UNCHANGED <<rootVars, heapVars, reclaimVars, drainVars, unitVars>>

\* A background worker starts to drain (gcBgMarkWorker, mgc.go): it leaves
\* the idle workers with the same decrement and check.
bgWorkerStart ==
    /\ bgBusy < NBg
    /\ barrierThrown = "none"
    /\ LET decnwait == Xadd(nwait, -1)
       IN  /\ nwait' = decnwait
           /\ IF decOverflows(decnwait, nproc)
              THEN /\ barrierThrown' = "work.nwait was > work.nproc"
                   /\ UNCHANGED bgBusy
              ELSE /\ bgBusy' = bgBusy + 1
                   /\ UNCHANGED barrierThrown
    /\ UNCHANGED <<nproc, param, bpc, workAvailable, calledMarkDone>>
    /\ UNCHANGED <<assistVars, rootVars, heapVars, reclaimVars, drainVars, unitVars>>

\* A background worker stops draining (gcBgMarkWorker, mgc.go): its drain
\* may have used up or produced work, and it goes idle with the same
\* increment and check.
bgWorkerStop ==
    /\ bgBusy > 0
    /\ barrierThrown = "none"
    /\ workAvailable' \in BOOLEAN
    /\ LET incnwait == Xadd(nwait, 1)
       IN  /\ nwait' = incnwait
           /\ IF incOverflows(incnwait, nproc)
              THEN /\ barrierThrown' = "work.nwait > work.nproc"
                   /\ UNCHANGED bgBusy
              ELSE /\ bgBusy' = bgBusy - 1
                   /\ UNCHANGED barrierThrown
    /\ UNCHANGED <<nproc, param, bpc, calledMarkDone>>
    /\ UNCHANGED <<assistVars, rootVars, heapVars, reclaimVars, drainVars, unitVars>>

\* Nobody touches work.nwait: the state of the barrier in the
\* specifications that leave it out.
BarrierIdle ==
    /\ nwait = 0
    /\ nproc = 0
    /\ param = <<>>
    /\ bpc = <<>>
    /\ bgBusy = 0
    /\ workAvailable = FALSE
    /\ calledMarkDone = {}
    /\ barrierThrown = "none"

\* ------------------------------------------------ scanobject: large objects

\* Line 34.
maxObletBytes == 131072

\* The large object has a pointer slot every FieldStep bytes, from its
\* base on; the words in between are scalars.
FieldStep == 65536

\* s.elemsize of the object: one that is not split, and three that are.
ObjSizes == {131072, 196608, 393216, 524288}

\* The values of its pointer slots: nil, a pointer to heap object 1, and
\* that pointer with the bits of GC_SKIP_MASK set.
ObletSlotValues == {0, 1, BitOr(1, GC_SKIP_MASK)}

\* The offsets of the pointer slots of an object of n bytes.
SlotOffsets(n) == {k * FieldStep : k \in 0..((n - 1) \div FieldStep)}

Min(a, b) == IF a < b THEN a ELSE b

\* Mutant: the loop over the oblets runs up to the end of the object
\* inclusive.
RECURSIVE PutObletsToEnd(_, _)
PutObletsToEnd(oblet, end) ==
    IF oblet <= end THEN {oblet} \cup PutObletsToEnd(oblet + maxObletBytes, end) ELSE {}

\* Lines 1876-1880: the oblets from oblet on, below the end of the object.
\* Offsets are relative to s.base().
RECURSIVE PutOblets(_, _)
PutOblets(oblet, end) ==
    IF oblet < end THEN {oblet} \cup PutOblets(oblet + maxObletBytes, end) ELSE {}

\* Lines 1870-1892: the bytes scanobject(b) scans of an object of elemsize
\* bytes.
ObletSize(b, elemsize_) ==
    IF elemsize_ > maxObletBytes THEN Min(elemsize_ - b, maxObletBytes) ELSE elemsize_

\* Lines 1903-1948: the loop over the pointer slots from off to end.  The
\* slots point outside the large object, so that obj-b >= n holds of every
\* value but nil; a masked value ends the scan (line 1933); the others go
\* to findObject and greyobject.
RECURSIVE ScanFields(_, _, _)
ScanFields(fields, off, end) ==
    IF off >= end THEN {}
    ELSE LET obj == fields[off]
         IN  IF obj = 0 THEN ScanFields(fields, off + FieldStep, end)
             ELSE IF gc_ptr_is_masked(obj) THEN {}
             ELSE (IF findObject(obj, <<0>>) # 0 THEN {off} ELSE {})
                     \cup ScanFields(fields, off + FieldStep, end)

\* scanobject(b) on the job b of the large object, by whichever worker took
\* it from a work queue.
scanobject(b) ==
    /\ b \in ojobs
    /\ LET n == ObletSize(b, lobj.elemsize)
           puts == IF lobj.elemsize > maxObletBytes /\ b = 0
                   THEN PutOblets(b + maxObletBytes, lobj.elemsize)
                   ELSE {}
       IN  /\ ojobs' = (ojobs \ {b}) \cup puts
           /\ oput' = oput \cup {<<b, oblet>> : oblet \in puts}
           /\ oranges' = oranges \cup {<<b, n>>}
           /\ ogreyed' = ogreyed \cup ScanFields(lobj.fields, b, b + n)
    /\ UNCHANGED <<lobj, taggerVars, prepares, deferVars>>
    /\ UNCHANGED <<rootVars, heapVars, reclaimVars, assistVars, drainVars, barrierVars>>

\* ------------------------------------------------- the tagger, round trips

\* How many tagger calls a pointer value is followed through.
MaxTagCalls == 2

\* gc_mask_ptr applied to the value.
MaskPtr ==
    /\ Len(taglog) < MaxTagCalls
    /\ tagptr' = gc_mask_ptr(tagptr, detect)
    /\ taglog' = Append(taglog, "mask")
    /\ UNCHANGED <<tagp, obletVars, prepares, deferVars>>
    /\ UNCHANGED <<rootVars, heapVars, reclaimVars, assistVars, drainVars, barrierVars>>

\* gc_undo_mask_ptr applied to the value.
UndoMaskPtr ==
    /\ Len(taglog) < MaxTagCalls
    /\ tagptr' = gc_undo_mask_ptr(tagptr)
    /\ taglog' = Append(taglog, "undo")
    /\ UNCHANGED <<tagp, obletVars, prepares, deferVars>>
    /\ UNCHANGED <<rootVars, heapVars, reclaimVars, assistVars, drainVars, barrierVars>>

\* ------------------------------------------------ gcGoexit: the defer chain

\* Deferred calls on a goroutine's chain.
MaxDefers == 3

\* Mutant: the panic record of gcGoexit is linked behind the records the
\* goroutine already has.
pushGoexitPanicAtTail(chain) == chain \o <<[goexit |-> TRUE]>>

\* gcGoexit lines 508-511: p.goexit = true; p.link = gp._panic;
\* gp._panic = &p.
pushGoexitPanic(chain) == <<[goexit |-> TRUE]>> \o chain

\* gcGoexit lines 505-511: the panic record is pushed.
gcGoexitPanic ==
    /\ gxpc = "entry"
    /\ gpanic' = pushGoexitPanic(gpanic)
    /\ gxpc' = "loop"
    /\ UNCHANGED <<gdefer, dentry, dran>>
    /\ UNCHANGED <<obletVars, taggerVars, prepares>>
    /\ UNCHANGED <<rootVars, heapVars, reclaimVars, assistVars, drainVars, barrierVars>>

\* gcGoexit lines 513-519, one turn of the loop with gp._defer # nil:
\* popDefer(gp) runs the call at the head of the chain and unlinks it.
popDefer ==
    /\ gxpc = "loop"
    /\ gdefer # <<>>
    /\ dran' = Append(dran, [fn |-> Head(gdefer),
                           goexit |-> gpanic # <<>> /\ Head(gpanic).goexit])
    /\ gdefer' = Tail(gdefer)
    /\ UNCHANGED <<gpanic, dentry, gxpc>>
    /\ UNCHANGED <<obletVars, taggerVars, prepares>>
    /\ UNCHANGED <<rootVars, heapVars, reclaimVars, assistVars, drainVars, barrierVars>>

\* gcGoexit lines 514-515 and 521: the loop ends with gp._defer = nil and
\* gc_goexit0 clears gp._defer and gp._panic (lines 464-465).
gcGoexitBreak ==
    /\ gxpc = "loop"
    /\ gdefer = <<>>
    /\ gdefer' = <<>>
    /\ gpanic' = <<>>
    /\ gxpc' = "dead"
    /\ UNCHANGED <<dentry, dran>>
    /\ UNCHANGED <<obletVars, taggerVars, prepares>>
    /\ UNCHANGED <<rootVars, heapVars, reclaimVars, assistVars, drainVars, barrierVars>>

\* No goroutine with defers is being reclaimed.
DeferIdle ==
    /\ gdefer = <<>>
    /\ gpanic = <<>>
    /\ dentry = <<>>
    /\ dran = <<>>
    /\ gxpc = "dead"

\* No large object, no tagger call and no second root preparation: the
\* state of these parts in the specifications that leave them out.
UnitIdle ==
    /\ lobj = <<>>
    /\ ojobs = {}
    /\ oput = {}
    /\ oranges = {}
    /\ ogreyed = {}
    /\ tagp = 0
    /\ tagptr = 0
    /\ taglog = <<>>
    /\ prepares = 0
    /\ DeferIdle

\* No mutator assists: the state of the assists in the specifications that
\* leave them out.
AssistIdle ==
    /\ assistQueue = <<>>
    /\ gcAssistBytes = <<>>
    /\ bgScanCredit = 0
    /\ bytesPerWork = <<1, 1>>
    /\ limiting = FALSE
    /\ gcBlackenEnabled = TRUE
    /\ apc = <<>>
    /\ flushes = 0
    /\ yields = 0

\* ---------------------------------------------- gcDrain: when the loops stop

\* gcDrainFlags, lines 1490-1496.
gcDrainUntilPreempt == 1
gcDrainFlushBgCredit == 2
gcDrainIdle == 4
gcDrainFractional == 8
gcDrainPartialDeadlock == 16

\* Every combination of the five flags.
DrainFlags == 0 .. (2 * gcDrainPartialDeadlock - 1)

\* flags&f != 0
HasFlag(flags, f) == BitAnd(flags, f) # 0

\* drainCheckThreshold, line 42.
drainCheckThreshold == 100000

\* int64(1<<63 - 1), line 1598, held at the largest integer the checker
\* has: checkWork starts there exactly when check is nil.
maxCheckWork == 2147483647

\* Lines 1598-1607: check is pollWork or pollFractionalWorkerExit in the
\* idle and fractional modes, and nil otherwise.
HasCheck(flags) == HasFlag(flags, gcDrainIdle) \/ HasFlag(flags, gcDrainFractional)

\* Mutant: a pending stop-the-world does not stop the loops.
LoopGuardIgnoresSTW(flags, pre, stw, fn) ==
    \/ HasFlag(flags, gcDrainPartialDeadlock)
    \/ ~(pre /\ (HasFlag(flags, gcDrainUntilPreempt) \/ fn # 0))

\* Mutant: the partial-deadlock mode stops like every other mode.
LoopGuardStopsPartialDeadlock(flags, pre, stw, fn) ==
    ~(pre /\ (HasFlag(flags, gcDrainUntilPreempt) \/ stw \/ fn # 0))

\* The condition of both loops, lines 1638 and 1663.
LoopGuard(flags, pre, stw, fn) ==
    \/ HasFlag(flags, gcDrainPartialDeadlock)
    \/ ~(pre /\ (HasFlag(flags, gcDrainUntilPreempt) \/ stw \/ fn # 0))

\* Lines 1644-1649: where a true poll in the root loop leads.
rootPollTarget(flags) ==
    IF HasFlag(flags, gcDrainPartialDeadlock) THEN "heaploop" ELSE "done"

\* The most root jobs and the most work items of a run.
MaxRootJobs == 2
MaxMade == 2

\* The scan work scanobject adds for one object.
ScanWorks == {1000, drainCheckThreshold}

\* The assists' state after a flush.
FlushTo(A) ==
    /\ assistQueue' = A.q
    /\ gcAssistBytes' = A.bytes
    /\ bgScanCredit' = A.credit
    /\ apc' = A.pc
    /\ UNCHANGED <<bytesPerWork, limiting, gcBlackenEnabled, flushes, yields>>

\* Mutant: the whole local balance is passed to gcFlushBgCredit.
bgCreditWithEntry(scanWork, init) == scanWork

\* Lines 1696 and 1716: the argument of gcFlushBgCredit, the local balance
\* less what it held when gcDrain was entered.
bgCreditOf(scanWork, init) == scanWork - init

\* gcDrain, lines 1580-1612: the locals, and whether a root job seems left.
gcDrainEntry ==
    /\ dpc = "entry"
    /\ initScanWork' = heapScanWork
    /\ drained' = [entry |-> heapScanWork, done |-> 0, flushed |-> 0]
    /\ checkWork' = IF HasCheck(dflags) THEN heapScanWork + drainCheckThreshold
                    ELSE maxCheckWork
    /\ dpc' = IF work.markrootNext < work.markrootJobs THEN "rootloop" ELSE "heaploop"
    /\ UNCHANGED <<dflags, preempt, gcwaiting, runSafePointFn, avail, made,
                   heapScanWork, ctlScanWork, stopSeen>>
    /\ UNCHANGED <<rootVars, heapVars, reclaimVars, barrierVars, unitVars, assistVars>>

\* gp.preempt is set while a stop-the-world or a forEachP is pending.
StopPending == preempt /\ (gcwaiting \/ runSafePointFn # 0)

\* Line 1638: the head of the root loop.
RootGuard ==
    /\ UNCHANGED drained
    /\ dpc = "rootloop"
    /\ dpc' = IF LoopGuard(dflags, preempt, gcwaiting, runSafePointFn)
              THEN "claim" ELSE "heaploop"
    /\ UNCHANGED <<dflags, preempt, gcwaiting, runSafePointFn, avail, made,
                   heapScanWork, initScanWork, checkWork, ctlScanWork>>
    /\ stopSeen' = (stopSeen \/ StopPending)
    /\ UNCHANGED <<rootVars, heapVars, reclaimVars, barrierVars, unitVars, assistVars>>

\* Lines 1639-1642: gcUpdateMarkrootNext, which takes the next job unless
\* the jobs have run out.
RootClaim ==
    /\ UNCHANGED drained
    /\ dpc = "claim"
    /\ IF work.markrootNext < work.markrootJobs
       THEN /\ work' = [work EXCEPT !.markrootNext = @ + 1]
            /\ dpc' = "markroot"
       ELSE /\ UNCHANGED work
            /\ dpc' = "heaploop"
    /\ UNCHANGED <<detect, gs, allgs, modules, nArenas, thrown, phase, wpc, wnext,
                   wjob, invoked, gcscandone, scanned, badderef>>
    /\ UNCHANGED <<dflags, preempt, gcwaiting, runSafePointFn, avail, made,
                   heapScanWork, initScanWork, checkWork, ctlScanWork, stopSeen>>
    /\ UNCHANGED <<heapVars, reclaimVars, barrierVars, unitVars, assistVars>>

\* Lines 1643-1650: markroot, which may grey an object, then the poll of the
\* idle and fractional modes.
RootMark ==
    /\ UNCHANGED drained
    /\ dpc = "markroot"
    /\ \E n \in 0..1 :
         /\ made + n <= MaxMade
         /\ made' = made + n
         /\ avail' = avail + n
    /\ \E poll \in IF HasCheck(dflags) THEN BOOLEAN ELSE {FALSE} :
         dpc' = IF poll THEN rootPollTarget(dflags) ELSE "rootloop"
    /\ UNCHANGED <<dflags, preempt, gcwaiting, runSafePointFn, heapScanWork,
                   initScanWork, checkWork, ctlScanWork, stopSeen>>
    /\ UNCHANGED <<rootVars, heapVars, reclaimVars, barrierVars, unitVars, assistVars>>

\* Line 1663: the head of the heap loop.
HeapGuard ==
    /\ UNCHANGED drained
    /\ dpc = "heaploop"
    /\ dpc' = IF LoopGuard(dflags, preempt, gcwaiting, runSafePointFn)
              THEN "get" ELSE "done"
    /\ UNCHANGED <<dflags, preempt, gcwaiting, runSafePointFn, avail, made,
                   heapScanWork, initScanWork, checkWork, ctlScanWork>>
    /\ stopSeen' = (stopSeen \/ StopPending)
    /\ UNCHANGED <<rootVars, heapVars, reclaimVars, barrierVars, unitVars, assistVars>>

\* Lines 1669-1687: tryGetFast and tryGet; if they find nothing, wbBufFlush
\* may produce an item for the second tryGet.
HeapGet ==
    /\ UNCHANGED drained
    /\ dpc = "get"
    /\ IF avail > 0
       THEN /\ avail' = avail - 1
            /\ dpc' = "scan"
            /\ UNCHANGED made
       ELSE \E n \in 0..1 :
              /\ made + n <= MaxMade
              /\ made' = made + n
              /\ dpc' = IF n = 1 THEN "scan" ELSE "done"
              /\ UNCHANGED avail
    /\ UNCHANGED <<dflags, preempt, gcwaiting, runSafePointFn, heapScanWork,
                   initScanWork, checkWork, ctlScanWork, stopSeen>>
    /\ UNCHANGED <<rootVars, heapVars, reclaimVars, barrierVars, unitVars, assistVars>>

\* Lines 1688-1709: scanobject, then the flush of the scan work once it
\* reaches gcCreditSlack and, when checkWork is used up, the poll.
HeapScan ==
    /\ dpc = "scan"
    /\ \E n \in 0..1 :
         /\ made + n <= MaxMade
         /\ made' = made + n
         /\ avail' = avail + n
    /\ \E sw \in ScanWorks :
         LET scanWork == heapScanWork + sw
         IN  IF scanWork >= gcCreditSlack
             THEN /\ ctlScanWork' = ctlScanWork + scanWork
                  /\ IF HasFlag(dflags, gcDrainFlushBgCredit)
                     THEN /\ FlushTo(gcFlushBgCredit(AssistWorld,
                                                     bgCreditOf(scanWork, initScanWork),
                                                     bytesPerWork))
                          /\ initScanWork' = 0
                          /\ drained' = [drained EXCEPT
                                           !.done = @ + sw,
                                           !.flushed = @ + bgCreditOf(scanWork, initScanWork)]
                     ELSE /\ UNCHANGED <<assistVars, initScanWork>>
                          /\ drained' = [drained EXCEPT !.done = @ + sw]
                  /\ heapScanWork' = 0
                  /\ IF checkWork - scanWork <= 0
                     THEN /\ checkWork' = checkWork - scanWork + drainCheckThreshold
                          /\ \E poll \in IF HasCheck(dflags) THEN BOOLEAN ELSE {FALSE} :
                               dpc' = IF poll THEN "done" ELSE "heaploop"
                     ELSE /\ checkWork' = checkWork - scanWork
                          /\ dpc' = "heaploop"
             ELSE /\ heapScanWork' = scanWork
                  /\ dpc' = "heaploop"
                  /\ drained' = [drained EXCEPT !.done = @ + sw]
                  /\ UNCHANGED <<assistVars, initScanWork, checkWork, ctlScanWork>>
    /\ UNCHANGED <<dflags, preempt, gcwaiting, runSafePointFn, stopSeen>>
    /\ UNCHANGED <<rootVars, heapVars, reclaimVars, barrierVars, unitVars>>

\* Lines 1711-1720: the flush of the scan work that is left, and the return.
DrainDone ==
    /\ dpc = "done"
    /\ IF heapScanWork > 0
       THEN /\ ctlScanWork' = ctlScanWork + heapScanWork
            /\ IF HasFlag(dflags, gcDrainFlushBgCredit)
               THEN /\ FlushTo(gcFlushBgCredit(AssistWorld,
                                               bgCreditOf(heapScanWork, initScanWork),
                                               bytesPerWork))
                    /\ drained' = [drained EXCEPT
                                     !.flushed = @ + bgCreditOf(heapScanWork, initScanWork)]
               ELSE UNCHANGED <<assistVars, drained>>
            /\ heapScanWork' = 0
       ELSE UNCHANGED <<ctlScanWork, heapScanWork, assistVars, drained>>
    /\ dpc' = "returned"
    /\ UNCHANGED <<dflags, preempt, gcwaiting, runSafePointFn, avail, made,
                   initScanWork, checkWork, stopSeen>>
    /\ UNCHANGED <<rootVars, heapVars, reclaimVars, barrierVars, unitVars>>

\* The scheduler sets gp.preempt of the worker.
preemptWorker ==
    /\ UNCHANGED drained
    /\ dpc # "returned"
    /\ ~preempt
    /\ preempt' = TRUE
    /\ UNCHANGED <<dflags, dpc, gcwaiting, runSafePointFn, avail, made, heapScanWork,
                   initScanWork, checkWork, ctlScanWork, stopSeen>>
    /\ UNCHANGED <<rootVars, heapVars, reclaimVars, barrierVars, unitVars, assistVars>>

\* stopTheWorld (proc.go) sets sched.gcwaiting.
stopTheWorldRequest ==
    /\ UNCHANGED drained
    /\ dpc # "returned"
    /\ ~gcwaiting
    /\ gcwaiting' = TRUE
    /\ UNCHANGED <<dflags, dpc, preempt, runSafePointFn, avail, made, heapScanWork,
                   initScanWork, checkWork, ctlScanWork, stopSeen>>
    /\ UNCHANGED <<rootVars, heapVars, reclaimVars, barrierVars, unitVars, assistVars>>

\* forEachP (proc.go) sets pp.runSafePointFn.
forEachP ==
    /\ UNCHANGED drained
    /\ dpc # "returned"
    /\ runSafePointFn = 0
    /\ runSafePointFn' = 1
    /\ UNCHANGED <<dflags, dpc, preempt, gcwaiting, avail, made, heapScanWork,
                   initScanWork, checkWork, ctlScanWork, stopSeen>>
    /\ UNCHANGED <<rootVars, heapVars, reclaimVars, barrierVars, unitVars, assistVars>>

\* Another worker takes a root job.
RootClaimOther ==
    /\ dpc # "returned"
    /\ work.markrootNext < work.markrootJobs
    /\ work' = [work EXCEPT !.markrootNext = @ + 1]
    /\ UNCHANGED <<detect, gs, allgs, modules, nArenas, thrown, phase, wpc, wnext,
                   wjob, invoked, gcscandone, scanned, badderef>>
    /\ UNCHANGED nonRootVars

\* No gcDrain with flags: the state of the specifications that leave the
\* stop conditions out.
DrainIdle ==
    /\ dflags = 0
    /\ dpc = "returned"
    /\ preempt = FALSE
    /\ gcwaiting = FALSE
    /\ runSafePointFn = 0
    /\ avail = 0
    /\ made = 0
    /\ heapScanWork = 0
    /\ initScanWork = 0
    /\ checkWork = 0
    /\ ctlScanWork = 0
    /\ stopSeen = FALSE
    /\ drained = [entry |-> 0, done |-> 0, flushed |-> 0]

\* ----------------------------------------------------------- specifications

\* No parked goroutines: the state of the reclaimer in the specifications
\* that leave it out.
ReclaimIdle ==
    /\ parked = <<>>
    /\ sudog = <<>>
    /\ semaRoot = [treap |-> 0, nwait |-> 0]
    /\ notifier = [head |-> 0, tail |-> 0]
    /\ hchan = <<>>
    /\ pool = <<>>
    /\ gfree = {}
    /\ reclaimLog = <<>>
    /\ reclaimThrown = "none"

\* No heap: the state of the scanner in the specifications of root marking.
HeapIdle ==
    /\ heap = <<>>
    /\ rootblock = <<>>
    /\ rootsleft = FALSE
    /\ marked = <<>>
    /\ gcw = [w \in Workers |-> <<>>]
    /\ full = <<>>
    /\ mpc = [w \in Workers |-> MIdle]
    /\ looked = {}
    /\ tagseen = {}

\* The states before gcMarkRootPrepare: n goroutines of the given kinds.
InitRoots(kinds, maxg, modlists, arenas, detects) ==
    /\ detect \in detects
    /\ \E n \in 0..maxg :
         /\ gs \in [1..n -> kinds]
         /\ allgs = [i \in 1..n |-> GAddr(i)]
         /\ gcscandone = [i \in 1..n |-> FALSE]
         /\ scanned = [i \in 1..n |-> 0]
    /\ modules \in modlists
    /\ nArenas \in arenas
    /\ work = WorkZero
    /\ thrown = "none"
    /\ phase = "stw"
    /\ wpc = [w \in Workers |-> "start"]
    /\ wnext = [w \in Workers |-> 0]
    /\ wjob = [w \in Workers |-> 0]
    /\ invoked = [i \in RootIdx |-> 0]
    /\ badderef = FALSE
    /\ HeapIdle
    /\ ReclaimIdle
    /\ AssistIdle
    /\ DrainIdle
    /\ BarrierIdle
    /\ UnitIdle

NoGlobals == <<[data |-> 0, bss |-> 0]>>
OneModule == <<[data |-> 1, bss |-> 0]>>
TwoModules ==
    <<[data |-> rootBlockBytes + 1, bss |-> 0], [data |-> 1, bss |-> rootBlockBytes]>>

Init == InitRoots(GKindsFew, MaxG, {NoGlobals}, {0}, {0, 1})

Next ==
    \/ gcMarkRootPrepare
    \/ \E w \in Workers :
         \/ DrainStart(w)
         \/ UpdateLoad(w)
         \/ UpdateCas(w)
         \/ UpdateReload(w)
         \/ Markroot(w)

Spec == Init /\ [][Next]_vars

\* Every worker keeps running, and the world is stopped only for as long as
\* gcMarkRootPrepare takes.
WorkerStep(w) ==
    DrainStart(w) \/ UpdateLoad(w) \/ UpdateCas(w) \/ UpdateReload(w) \/ Markroot(w)

\* The fair runs start with detection on (debug.gcdetectdeadlocks == 0).
InitFair == InitRoots(GKindsFew, MaxG, {NoGlobals}, {0}, {0})

FairSpec ==
    /\ InitFair /\ [][Next]_vars
    /\ WF_vars(gcMarkRootPrepare)
    /\ \A w \in Workers : WF_vars(WorkerStep(w))

\* The goroutine kinds of the policy specification: a running goroutine and
\* one an earlier cycle reported as deadlocked.
GKindsPolicy ==
    {[status |-> "_Grunning", waitreason |-> "waitReasonZero"],
     [status |-> "_Gdeadlocked", waitreason |-> "waitReasonChanReceive"]}

\* Root marking under every policy, with goroutines that block and are found
\* unreachable while the roots are marked.
InitPolicy == InitRoots(GKindsPolicy, MaxG, {NoGlobals}, {0}, {0, 1, 2})

NextPolicy ==
    \/ Next
    \/ \E gp \in DOMAIN gs : gopark(gp)
    \/ \E gp \in DOMAIN gs : detectUnreachable(gp)

SpecPolicy == InitPolicy /\ [][NextPolicy]_vars

\* Root preparation alone, over every kind of goroutine, module list and
\* policy.
InitSnapshot ==
    InitRoots(GKindsAll, MaxSnapG, {OneModule, TwoModules}, 0..MaxArenas, {0, 1, 2})

NextSnapshot == gcMarkRootPrepare

SpecSnapshot == InitSnapshot /\ [][NextSnapshot]_vars

\* The root-marking variables in the specifications that leave it out.
RootsWith(wk) ==
    /\ detect = 0
    /\ gs = <<>>
    /\ allgs = <<>>
    /\ gcscandone = <<>>
    /\ scanned = <<>>
    /\ modules = NoGlobals
    /\ nArenas = 0
    /\ work = wk
    /\ thrown = "none"
    /\ phase = "mark"
    /\ wpc = [w \in Workers |-> "done"]
    /\ wnext = [w \in Workers |-> 0]
    /\ wjob = [w \in Workers |-> 0]
    /\ invoked = [i \in RootIdx |-> 0]
    /\ badderef = FALSE

RootsIdle == RootsWith(WorkZero)

\* The values of a pointer slot: nil, a pointer to an object, or such a
\* pointer with the bits of GC_SKIP_MASK set.
SlotValues(n) == {0} \cup (1..n) \cup {BitOr(o, GC_SKIP_MASK) : o \in 1..n}

\* Object 1 has two pointer slots and the others one.
NSlots(o) == IF o = 1 THEN 2 ELSE 1

\* The heaps: NObj objects, the last of them scannable or noscan (and then
\* without pointers); the root block holds a pointer to object 1, or
\* pointers to objects 1 and 2.
InitMark ==
    /\ RootsIdle
    /\ ReclaimIdle
    /\ AssistIdle
    /\ DrainIdle
    /\ BarrierIdle
    /\ UnitIdle
    /\ \E ns \in BOOLEAN :
         /\ heap \in [1..NObj -> [slots : UNION {[1..k -> SlotValues(NObj)] : k \in 1..2},
                                   noscan : {FALSE, ns}]]
         /\ \A o \in 1..NObj :
              /\ Len(heap[o].slots) = NSlots(o)
              /\ heap[o].noscan <=> (ns /\ o = NObj /\ o # 1)
              /\ heap[o].noscan => \A i \in DOMAIN heap[o].slots : heap[o].slots[i] = 0
    /\ rootblock \in {<<1>>, <<1, 2>>}
    /\ rootsleft = TRUE
    /\ marked = [o \in 1..NObj |-> FALSE]
    /\ gcw = [w \in Workers |-> <<>>]
    /\ full = [o \in 1..NObj |-> 0]
    /\ mpc = [w \in Workers |-> MIdle]
    /\ looked = {}
    /\ tagseen = {}

NextMark ==
    \E w \in Workers :
        \/ MarkrootBlock(w)
        \/ GetLocal(w)
        \/ GetGlobal(w)
        \/ ScanSlot(w)
        \/ GreySet(w)

SpecMark == InitMark /\ [][NextMark]_vars

\* Marking under way: an earlier root job has greyed object 1, which waits
\* in the global pool, while the root block is still to be scanned, so that
\* two workers can meet on one object.
InitGrey ==
    /\ RootsIdle
    /\ ReclaimIdle
    /\ AssistIdle
    /\ DrainIdle
    /\ BarrierIdle
    /\ UnitIdle
    /\ \E ns \in BOOLEAN :
         /\ heap \in [1..NObj -> [slots : UNION {[1..k -> SlotValues(NObj)] : k \in 1..2},
                                   noscan : {FALSE, ns}]]
         /\ \A o \in 1..NObj :
              /\ Len(heap[o].slots) = NSlots(o)
              /\ heap[o].noscan <=> (ns /\ o = NObj /\ o # 1)
              /\ heap[o].noscan => \A i \in DOMAIN heap[o].slots : heap[o].slots[i] = 0
    /\ rootblock = <<2>>
    /\ rootsleft = TRUE
    /\ marked = [o \in 1..NObj |-> o = 1]
    /\ full = [o \in 1..NObj |-> IF o = 1 THEN 1 ELSE 0]
    /\ gcw = [w \in Workers |-> <<>>]
    /\ mpc = [w \in Workers |-> MIdle]
    /\ looked = {}
    /\ tagseen = {}

SpecGrey == InitGrey /\ [][NextMark]_vars

\* The ways a goroutine parks: on the semaphore at a with ticket t, on the
\* notifyList, receiving on channel 1, or in a select receiving on both
\* channels.
Parks ==
    {[k |-> "sema", a |-> a, t |-> t] : a \in SemaAddrs, t \in Tickets}
        \cup {[k |-> x, a |-> 0, t |-> 0] : x \in {"notify", "recv", "select"}}

\* The goroutine g parks the way pk says: semacquire1, notifyListWait,
\* chanrecv or selectgo up to their gopark.
Park(W, g, pk, det) ==
    LET s == FirstSudog(g)
        s2 == SecondSudog(g)
    IN  CASE pk.k = "sema" ->
               LET W1 == queue(W, gc_mask_ptr(pk.a, det), s, g, pk.t)
               IN  [W1 EXCEPT !.nwait = @ + 1,
                              !.gp[g].waiting_sema = gc_mask_ptr(pk.a, det),
                              !.gp[g].waitreason = "waitReasonSyncMutexLock"]
          [] pk.k = "notify" ->
               [notifyListWait(W, s, g) EXCEPT
                    !.gp[g].waiting_notifier = gc_mask_ptr(notifyListAddr, det),
                    !.gp[g].waitreason = "waitReasonSyncCondWait"]
          [] pk.k = "recv" ->
               [enqueue([W EXCEPT !.sd[s].g = g, !.sd[s].elem = GAddr(g),
                                  !.sd[s].c = 1], 1, s)
                   EXCEPT !.gp[g].waiting = s,
                          !.gp[g].waitreason = "waitReasonChanReceive"]
          [] OTHER ->
               LET W1 == [W EXCEPT !.sd[s].g = g, !.sd[s].elem = GAddr(g),
                                   !.sd[s].c = 1, !.sd[s].isSelect = TRUE,
                                   !.sd[s].waitlink = s2,
                                   !.sd[s2].g = g, !.sd[s2].elem = GAddr(g),
                                   !.sd[s2].c = 2, !.sd[s2].isSelect = TRUE]
               IN  [Only({enqueue(W2, 2, s2) : W2 \in {enqueue(W1, 1, s)}})
                       EXCEPT !.gp[g].waiting = s,
                              !.gp[g].waitreason = "waitReasonSelect"]

\* The goroutines g..n park one after the other.
RECURSIVE ParkAll(_, _, _, _, _)
ParkAll(W, g, n, pks, det) ==
    IF g > n THEN W
    ELSE Only({ParkAll(W1, g + 1, n, pks, det) : W1 \in {Park(W, g, pks[g], det)}})

\* The world before anybody parks; sts says which goroutines the detector
\* has found unreachable.
WorldZero(n, sts) ==
    [gp |-> [g \in 1..n |-> [status |-> sts[g], waitreason |-> "waitReasonZero",
                             waiting_sema |-> 0, waiting_notifier |-> 0,
                             waiting |-> 0]],
     sd |-> [s \in 1..SecondSudog(n) |-> sudogZero],
     treap |-> 0, nwait |-> 0, head |-> 0, tail |-> 0,
     q |-> [c \in Chans |-> [first |-> 0, last |-> 0]],
     pool |-> <<>>, gfree |-> {}, thrown |-> "none", target |-> 0]

InitReclaim ==
    /\ RootsIdle
    /\ HeapIdle
    /\ AssistIdle
    /\ DrainIdle
    /\ BarrierIdle
    /\ UnitIdle
    /\ \E pks \in [Fibers -> Parks] :
       \E sts \in [Fibers -> {"_Gunreachable", "_Gwaiting"}] :
         \E W \in {ParkAll(WorldZero(NFib, sts), 1, NFib, pks, 0)} :
             /\ parked = W.gp
             /\ sudog = W.sd
             /\ semaRoot = [treap |-> W.treap, nwait |-> W.nwait]
             /\ notifier = [head |-> W.head, tail |-> W.tail]
             /\ hchan = W.q
             /\ pool = W.pool
             /\ gfree = W.gfree
             /\ reclaimLog = <<>>
             /\ reclaimThrown = W.thrown

NextReclaim == \E gp \in Fibers : gcGoexit(gp)

SpecReclaim == InitReclaim /\ [][NextReclaim]_vars

\* The mutators that assist start in debt; a worker flushes credit at most
\* MaxFlush times.
Debt(gp) == IF gp % 2 = 1 THEN -100000 ELSE -20000
Credits == {0}
Rates == {<<1, 2>>}

InitAssist ==
    /\ RootsIdle
    /\ HeapIdle
    /\ ReclaimIdle
    /\ DrainIdle
    /\ BarrierIdle
    /\ UnitIdle
    /\ assistQueue = <<>>
    /\ gcAssistBytes = [gp \in Mutators |-> Debt(gp)]
    /\ bgScanCredit \in Credits
    /\ bytesPerWork \in Rates
    /\ limiting = FALSE
    /\ gcBlackenEnabled = TRUE
    /\ apc = [gp \in Mutators |-> "idle"]
    /\ flushes = 0
    /\ yields = 0

NextAssist ==
    \/ \E gp \in Mutators :
         \/ gcAssistAlloc(gp)
         \/ AssistRetry(gp)
         \/ AssistAfter(gp)
         \/ AssistResume(gp)
    \/ \E scanWork \in FlushWorks : FlushCredit(scanWork)
    \/ limiterOn

SpecAssist == InitAssist /\ [][NextAssist]_vars

\* The assists while the mark phase may end.
NextCycleEnd ==
    \/ \E gp \in Mutators :
         \/ gcAssistAlloc(gp)
         \/ AssistRetry(gp)
         \/ AssistAfter(gp)
         \/ AssistResume(gp)
    \/ \E scanWork \in FlushWorks : FlushCredit(scanWork)
    \/ gcBlackenDisable
    \/ gcWakeAllAssists

SpecCycleEnd == InitAssist /\ [][NextCycleEnd]_vars

\* The mark phase with every worker idle: mutators enter gcAssistAlloc1
\* while background workers start and stop.
InitBarrier ==
    /\ RootsIdle
    /\ HeapIdle
    /\ ReclaimIdle
    /\ DrainIdle
    /\ assistQueue = <<>>
    /\ gcAssistBytes = [gp \in Mutators |-> Debt(gp)]
    /\ bgScanCredit = 0
    /\ bytesPerWork \in Rates
    /\ limiting = FALSE
    /\ gcBlackenEnabled = TRUE
    /\ apc = [gp \in Mutators |-> "retry"]
    /\ flushes = 0
    /\ yields = 0
    /\ UnitIdle
    /\ nproc = MaxCounter
    /\ nwait = MaxCounter
    /\ param \in [Mutators -> BOOLEAN]
    /\ bpc = [gp \in Mutators |-> "entry"]
    /\ bgBusy = 0
    /\ workAvailable \in BOOLEAN
    /\ calledMarkDone = {}
    /\ barrierThrown = "none"

NextBarrier ==
    \/ \E gp \in Mutators :
         \/ Assist1Entry(gp)
         \/ Assist1Dec(gp)
         \/ Assist1Drain(gp)
         \/ Assist1Inc(gp)
         \/ Assist1Poll(gp)
         \/ AssistBack(gp)
    \/ bgWorkerStart
    \/ bgWorkerStop

SpecBarrier == InitBarrier /\ [][NextBarrier]_vars

\* The masked values of a large object come last: the only large object
\* the runtime stores masked pointers in is the snapshot slice of
\* allGsSnapshotSortedForGC (lines 113-142), which holds the pointers to the
\* running goroutines first and the masked pointers to the blocked ones
\* after them.
TaggedSuffix(fields) ==
    \A a, b \in DOMAIN fields :
       (a < b /\ gc_ptr_is_masked(fields[a])) => gc_ptr_is_masked(fields[b])

\* A large object whose base has been greyed: the job for its base is in a
\* work queue.
InitOblet ==
    /\ RootsIdle
    /\ HeapIdle
    /\ ReclaimIdle
    /\ AssistIdle
    /\ DrainIdle
    /\ BarrierIdle
    /\ \E n \in ObjSizes :
         lobj \in [elemsize : {n}, fields : [SlotOffsets(n) -> ObletSlotValues]]
    /\ TaggedSuffix(lobj.fields)
    /\ ojobs = {0}
    /\ oput = {}
    /\ oranges = {}
    /\ ogreyed = {}
    /\ tagp = 0
    /\ tagptr = 0
    /\ taglog = <<>>
    /\ prepares = 0
    /\ DeferIdle

NextOblet == \E b \in ojobs : scanobject(b)

SpecOblet == InitOblet /\ [][NextOblet]_vars

\* Root preparation, and then root preparation again.
NextPrepareTwice ==
    \/ gcMarkRootPrepare
    \/ gcMarkRootPrepareAgain

SpecPrepareTwice == InitSnapshot /\ [][NextPrepareTwice]_vars

\* Every pointer value of the (scaled) word size, under every setting of
\* debug.gcdetectdeadlocks, passed through the tagger functions.
InitTagger ==
    /\ detect \in {0, 1, 2}
    /\ gs = <<>>
    /\ allgs = <<>>
    /\ gcscandone = <<>>
    /\ scanned = <<>>
    /\ modules = NoGlobals
    /\ nArenas = 0
    /\ work = WorkZero
    /\ thrown = "none"
    /\ phase = "mark"
    /\ wpc = [w \in Workers |-> "done"]
    /\ wnext = [w \in Workers |-> 0]
    /\ wjob = [w \in Workers |-> 0]
    /\ invoked = [i \in RootIdx |-> 0]
    /\ badderef = FALSE
    /\ HeapIdle
    /\ ReclaimIdle
    /\ AssistIdle
    /\ DrainIdle
    /\ BarrierIdle
    /\ lobj = <<>>
    /\ ojobs = {}
    /\ oput = {}
    /\ oranges = {}
    /\ ogreyed = {}
    /\ tagp \in 0..(WordMod - 1)
    /\ tagptr = tagp
    /\ taglog = <<>>
    /\ prepares = 0
    /\ DeferIdle

NextTagger ==
    \/ MaskPtr
    \/ UndoMaskPtr

SpecTagger == InitTagger /\ [][NextTagger]_vars

\* The defer chains of up to MaxDefers calls, no call twice.
RECURSIVE DeferChains(_)
DeferChains(S) ==
    {<<>>} \cup UNION {{<<d>> \o c : c \in DeferChains(S \ {d})} : d \in S}

\* An unreachable goroutine with any defer chain, parked outside a panic or
\* in a deferred call that a panic runs.
InitDefer ==
    /\ RootsIdle
    /\ HeapIdle
    /\ ReclaimIdle
    /\ AssistIdle
    /\ DrainIdle
    /\ BarrierIdle
    /\ lobj = <<>>
    /\ ojobs = {}
    /\ oput = {}
    /\ oranges = {}
    /\ ogreyed = {}
    /\ tagp = 0
    /\ tagptr = 0
    /\ taglog = <<>>
    /\ prepares = 0
    /\ gdefer \in DeferChains(1..MaxDefers)
    /\ gpanic \in {<<>>, <<[goexit |-> FALSE]>>, <<[goexit |-> FALSE], [goexit |-> FALSE]>>}
    /\ dentry = gdefer
    /\ dran = <<>>
    /\ gxpc = "entry"

NextDefer ==
    \/ gcGoexitPanic
    \/ popDefer
    \/ gcGoexitBreak

SpecDefer == InitDefer /\ [][NextDefer]_vars

\* One mutator that has allocated 1 MiB on credit, at two bytes of credit
\* per unit of scan work (assistWorkPerByte = 0.5), and no background
\* credit; the other mutators owe nothing.
ExampleDebt == 1048576

\* The credit a worker flushes: less than the debt, or more.
ExampleFlushWorks == {300000, 600000}

InitExample ==
    /\ RootsIdle
    /\ HeapIdle
    /\ ReclaimIdle
    /\ DrainIdle
    /\ BarrierIdle
    /\ UnitIdle
    /\ assistQueue = <<>>
    /\ gcAssistBytes = [gp \in Mutators |-> IF gp = 1 THEN -ExampleDebt ELSE 0]
    /\ bgScanCredit = 0
    /\ bytesPerWork = <<2, 1>>
    /\ limiting = FALSE
    /\ gcBlackenEnabled = TRUE
    /\ apc = [gp \in Mutators |-> "idle"]
    /\ flushes = 0
    /\ yields = 0

NextExample ==
    \/ \E gp \in Mutators :
         \/ gcAssistAlloc(gp)
         \/ AssistRetry(gp)
         \/ AssistAfter(gp)
         \/ AssistResume(gp)
    \/ \E scanWork \in ExampleFlushWorks : FlushCredit(scanWork)
    \/ limiterOn

SpecExample == InitExample /\ [][NextExample]_vars

\* A queue of parked assists, in any order and with any of the debts of
\* ParkedDebts, that background workers flush credit to.
ParkedDebts == {-20000, -100000, -200000}

\* The queues of distinct mutators.
RECURSIVE Queues(_)
Queues(S) ==
    {<<>>} \cup UNION {{<<gp>> \o q : q \in Queues(S \ {gp})} : gp \in S}

InQueue(q, gp) == \E i \in DOMAIN q : q[i] = gp

InitFlush ==
    /\ RootsIdle
    /\ HeapIdle
    /\ ReclaimIdle
    /\ DrainIdle
    /\ BarrierIdle
    /\ UnitIdle
    /\ assistQueue \in Queues(Mutators)
    /\ gcAssistBytes \in [Mutators -> ParkedDebts \cup {0}]
    /\ \A gp \in Mutators : InQueue(assistQueue, gp) <=> gcAssistBytes[gp] < 0
    /\ apc = [gp \in Mutators |->
                IF InQueue(assistQueue, gp) THEN "parked" ELSE "returned"]
    /\ bgScanCredit = 0
    /\ bytesPerWork \in Rates
    /\ limiting = FALSE
    /\ gcBlackenEnabled = TRUE
    /\ flushes = 0
    /\ yields = 0

NextFlush ==
    \/ \E scanWork \in FlushWorks : FlushRound(scanWork)
    \/ \E gp \in Mutators : AssistResume(gp)

SpecFlush == InitFlush /\ [][NextFlush]_vars

\* Assists that have left gcAssistAlloc1 in debt, while others are parked
\* and credit may be there: gcFlushBgCredit adds it without the queue's lock
\* when it has seen the queue empty (lines 1150-1156).
ParkCredits == {0, 50000}

InitPark ==
    /\ RootsIdle
    /\ HeapIdle
    /\ ReclaimIdle
    /\ DrainIdle
    /\ BarrierIdle
    /\ UnitIdle
    /\ assistQueue \in Queues(Mutators)
    /\ Len(assistQueue) < NAssist
    /\ gcAssistBytes = [gp \in Mutators |-> Debt(gp)]
    /\ apc = [gp \in Mutators |->
                IF InQueue(assistQueue, gp) THEN "parked" ELSE "after"]
    /\ bgScanCredit \in ParkCredits
    /\ bytesPerWork \in Rates
    /\ limiting = FALSE
    /\ gcBlackenEnabled = TRUE
    /\ flushes = 0
    /\ yields = 0

NextPark ==
    \/ \E gp \in Mutators :
         \/ AssistAfter(gp)
         \/ AssistRetry(gp)
         \/ AssistResume(gp)
    \/ \E scanWork \in FlushWorks : FlushCredit(scanWork)

SpecPark == InitPark /\ [][NextPark]_vars

\* One worker in gcDrain, with every combination of flags, while the
\* scheduler may ask it to stop and other workers take root jobs.
InitDrain ==
    /\ \E jobs \in 0..MaxRootJobs : RootsWith([WorkZero EXCEPT !.markrootJobs = jobs])
    /\ HeapIdle
    /\ ReclaimIdle
    /\ AssistIdle
    /\ BarrierIdle
    /\ UnitIdle
    /\ dflags \in DrainFlags
    /\ dpc = "entry"
    /\ preempt = FALSE
    /\ gcwaiting = FALSE
    /\ runSafePointFn = 0
    /\ avail \in 0..1
    /\ made = avail
    /\ heapScanWork \in {0, 1000}
    /\ initScanWork = 0
    /\ checkWork = 0
    /\ ctlScanWork = 0
    /\ stopSeen = FALSE
    /\ drained = [entry |-> 0, done |-> 0, flushed |-> 0]

NextDrain ==
    \/ gcDrainEntry
    \/ RootGuard
    \/ RootClaim
    \/ RootMark
    \/ HeapGuard
    \/ HeapGet
    \/ HeapScan
    \/ DrainDone
    \/ preemptWorker
    \/ stopTheWorldRequest
    \/ forEachP
    \/ RootClaimOther

SpecDrain == InitDrain /\ [][NextDrain]_vars

\* ------------------------------------------------------------------ claims

\* The workers that hold a claimed root index they have not yet marked.
Holders(i) == {w \in Workers : wpc[w] = "markroot" /\ wjob[w] = i}

\* How often index i has been returned with success so far.
Returned(i) == invoked[i] + Cardinality(Holders(i))

\* C1: under any interleaving of workers in gcUpdateMarkrootNext, no root
\* index is returned to more than one caller, and every index returned with
\* success lies in [0, markrootJobs).
C1_NoIndexTwice ==
    /\ \A i \in RootIdx : Returned(i) <= 1
    /\ \A i \in RootIdx : Returned(i) > 0 => i < work.markrootJobs

\* A background worker and an assist hold different claimed indexes at once.
C1_Witness ==
    \E w1, w2 \in Workers :
        /\ ~IsAssist(w1) /\ IsAssist(w2)
        /\ wpc[w1] = "markroot" /\ wpc[w2] = "markroot"
        /\ wjob[w1] # wjob[w2]

AllWorkersDone == phase = "mark" /\ \A w \in Workers : wpc[w] = "done"

EveryRootOnce ==
    /\ \A i \in RootIdx : invoked[i] = (IF i < work.markrootJobs THEN 1 ELSE 0)
    /\ work.markrootNext = work.markrootJobs

\* C2: with markrootJobs = N fixed by preparation and workers that keep
\* claiming until gcUpdateMarkrootNext fails, the workers all finish, and
\* then markroot has run exactly once for every index in [0, N) and
\* markrootNext equals N.
C2_EveryRootOnce ==
    /\ [](AllWorkersDone => EveryRootOnce)
    /\ <>AllWorkersDone

\* The workers are done after three or more root jobs.
C2_Witness == AllWorkersDone /\ work.markrootJobs >= 3 /\ EveryRootOnce

\* C3: after gcMarkRootPrepare markrootNext <= markrootJobs, and in the
\* concurrent phase markrootNext changes only from v to v + 1, by the worker
\* whose compare-and-swap succeeds.
C3_NextOnlyAdvances ==
    /\ [](phase = "mark" => work.markrootNext <= work.markrootJobs)
    /\ [][phase = "mark" /\ work'.markrootNext # work.markrootNext =>
            /\ work'.markrootNext = work.markrootNext + 1
            /\ \E w \in Workers :
                 /\ wpc[w] = "cas" /\ wnext[w] = work.markrootNext
                 /\ wpc'[w] = "markroot" /\ wjob'[w] = work.markrootNext]_vars

\* The counter has reached markrootJobs while a worker's swap has failed.
C3_Witness ==
    /\ phase = "mark"
    /\ work.markrootJobs >= 3
    /\ work.markrootNext = work.markrootJobs
    /\ \E w \in Workers : wpc[w] = "reload"

\* The Go indexes of stackRoots that hold goroutine g, tagged or not.
SlotsOf(g) ==
    {k \in 0..(Len(work.stackRoots) - 1) :
        gc_undo_mask_ptr(work.stackRoots[k + 1]) = g}

\* The goroutines the sorted snapshot must fence off.
IsBlocked(g) ==
    /\ gs[g].status = "_Gwaiting"
    /\ gs[g].waitreason \in
         {"waitReasonChanReceive", "waitReasonChanSend", "waitReasonChanReceiveNilChan",
          "waitReasonChanSendNilChan", "waitReasonSelect", "waitReasonSelectNoCases",
          "waitReasonSyncWaitGroupWait", "waitReasonSyncMutexLock",
          "waitReasonSyncRWMutexRLock", "waitReasonSyncRWMutexLock",
          "waitReasonSyncCondWait"}

\* The sorted snapshot was taken.
SortedSnapshotTaken == phase = "mark" /\ detect = 0

\* C4: every goroutine that is _Gwaiting with a blocking wait reason when
\* the sorted snapshot is taken is stored at an index >= nValidStackRoots,
\* and the stored pointer is tagged.
C4_BlockedInTaggedSuffix ==
    SortedSnapshotTaken =>
        \A g \in DOMAIN gs :
            IsBlocked(g) =>
                /\ SlotsOf(g) # {}
                /\ \A k \in SlotsOf(g) :
                     /\ k >= work.nValidStackRoots
                     /\ gc_ptr_is_masked(work.stackRoots[k + 1])

\* The snapshot holds a live goroutine and one in sync.Cond.Wait.
C4_Witness ==
    /\ SortedSnapshotTaken
    /\ \E g, h \in DOMAIN gs :
         /\ gs[g].status = "_Gwaiting" /\ gs[g].waitreason = "waitReasonSyncCondWait"
         /\ gs[h].status = "_Grunning"
         /\ g < h

NoUnreachable == \A g \in DOMAIN gs : gs[g].status # "_Gunreachable"

IsLive(g) ==
    gs[g].status # "_Gwaiting"
        \/ gs[g].waitreason \notin
             {"waitReasonChanReceive", "waitReasonChanSend",
              "waitReasonChanReceiveNilChan", "waitReasonChanSendNilChan",
              "waitReasonSelect", "waitReasonSelectNoCases",
              "waitReasonSyncWaitGroupWait", "waitReasonSyncMutexLock",
              "waitReasonSyncRWMutexRLock", "waitReasonSyncRWMutexLock",
              "waitReasonSyncCondWait"}

\* C5: for a list of goroutines with none _Gunreachable the sorted snapshot
\* neither throws nor fails its final check; it holds every goroutine exactly
\* once after untagging; its prefix [0, n) holds exactly the goroutines that
\* are not _Gwaiting or wait for an unblocking reason, untagged; and n is the
\* number of those goroutines.
C5_SnapshotIsSortedPermutation ==
    /\ thrown # "currIndex and blockedIndex don't match up"
    /\ detect = 0 /\ NoUnreachable => thrown = "none"
    /\ SortedSnapshotTaken =>
        /\ Len(work.stackRoots) = Len(allgs)
        /\ \A i \in DOMAIN allgs : Cardinality(SlotsOf(allgs[i])) = 1
        /\ \A g \in DOMAIN gs :
             IsLive(g) <=>
                \E k \in SlotsOf(g) :
                    k < work.nValidStackRoots /\ work.stackRoots[k + 1] = g
        /\ work.nValidStackRoots = Cardinality({g \in DOMAIN gs : IsLive(g)})

\* A blocked goroutine comes first in allgs and a live one second, so the
\* snapshot reorders them.
C5_Witness ==
    /\ SortedSnapshotTaken
    /\ Len(allgs) >= 2
    /\ ~IsLive(allgs[1]) /\ IsLive(allgs[2])
    /\ work.stackRoots[1] = allgs[2]

\* C6: after gcMarkRootPrepare markrootJobs is fixedRootCount + nDataRoots +
\* nBSSRoots + nSpanRoots + nValidStackRoots, the bases are ordered, baseEnd -
\* baseStacks is nStackRoots, and markrootJobs = baseStacks + nValidStackRoots
\* <= baseEnd, so that no tagged slot of stackRoots lies below markrootJobs.
C6_JobsExcludeBlocked ==
    phase = "mark" =>
        /\ work.markrootJobs = fixedRootCount + work.nDataRoots + work.nBSSRoots
                                 + work.nSpanRoots + work.nValidStackRoots
        /\ work.baseData <= work.baseBSS
        /\ work.baseBSS <= work.baseSpans
        /\ work.baseSpans <= work.baseStacks
        /\ work.baseStacks <= work.baseEnd
        /\ work.baseEnd - work.baseStacks = work.nStackRoots
        /\ work.nStackRoots = Len(allgs)
        /\ work.markrootJobs = work.baseStacks + work.nValidStackRoots
        /\ work.markrootJobs <= work.baseEnd
        /\ \A k \in 0..(work.nStackRoots - 1) :
             gc_ptr_is_masked(work.stackRoots[k + 1])
                => work.baseStacks + k >= work.markrootJobs

\* Prepared with data, BSS and span roots and a blocked goroutine.
C6_Witness ==
    /\ phase = "mark"
    /\ work.nDataRoots > 1 /\ work.nBSSRoots > 0 /\ work.nSpanRoots > 0
    /\ 0 < work.nValidStackRoots
    /\ work.nValidStackRoots < work.nStackRoots

\* The root indexes of the blocked range.
BlockedRange == {i \in RootIdx : work.baseStacks + work.nValidStackRoots <= i
                                   /\ i < work.baseEnd}

\* C7: during a cycle markroot is never invoked with an index of the blocked
\* range [baseStacks + nValidStackRoots, baseEnd): no tagged entry of
\* stackRoots is used as a goroutine pointer, and no goroutine stored there
\* has its stack scanned.
C7_BlockedRangeNeverMarked ==
    phase = "mark" =>
        /\ ~badderef
        /\ \A i \in BlockedRange : Returned(i) = 0
        /\ \A i \in BlockedRange :
             LET g == gc_undo_mask_ptr(work.stackRoots[i - work.baseStacks + 1])
             IN  scanned[g] = 0 /\ ~gcscandone[g]

\* Every root job has run, a live stack was scanned and a blocked goroutine
\* was left alone.
C7_Witness ==
    /\ AllWorkersDone
    /\ BlockedRange # {}
    /\ \E g \in DOMAIN gs : scanned[g] = 1

\* The objects the words ws point to with untagged pointers.
Targets(ws, h) == {findObject(ws[i], h) : i \in DOMAIN ws} \ {0}

RECURSIVE ReachFrom(_, _)
ReachFrom(S, h) ==
    LET T == S \cup UNION {Targets(h[o].slots, h) : o \in S}
    IN  IF T = S THEN S ELSE ReachFrom(T, h)

\* The objects reachable from the untagged roots through untagged pointer
\* fields.
ReachableUntagged == ReachFrom(Targets(rootblock, heap), heap)

\* Every root job has run, no worker is scanning and every work queue is
\* empty.
MarkDone ==
    /\ ~rootsleft
    /\ \A w \in Workers : mpc[w] = MIdle /\ gcw[w] = <<>>
    /\ \A o \in Objs(heap) : full[o] = 0

\* C8: scanobject never passes a tagged slot value to findObject or to
\* greyobject: no worker is in greyobject on account of a tagged slot, and
\* every object that is marked or enqueued is reachable from the roots
\* through untagged pointers only.
C8_TaggedNeverLookedUp ==
    /\ \A p \in looked : ~gc_ptr_is_masked(p)
    /\ \A w \in Workers :
         mpc[w].pc = "grey" /\ mpc[w].kind = "obj" =>
            ~gc_ptr_is_masked(heap[mpc[w].b].slots[mpc[w].i])
    /\ \A o \in Objs(heap) :
         (marked[o] \/ full[o] > 0 \/ \E w \in Workers : \E k \in DOMAIN gcw[w] : gcw[w][k] = o)
            => o \in ReachableUntagged

\* C8 witness: marking is over, scanobject has read a tagged slot value, and
\* the object that value names stayed unmarked.
C8_Witness ==
    /\ MarkDone
    /\ \E p \in tagseen : ~marked[gc_undo_mask_ptr(p)]
    /\ \E o \in Objs(heap) : marked[o]

\* C9: when every root job has run and every work queue is empty, every
\* object reachable from an untagged root through untagged pointer fields
\* is marked.
C9_ReachableAllMarked ==
    MarkDone => \A o \in ReachableUntagged : marked[o]

\* The sudogs of the sema treap: those reachable from root.treap by prev,
\* next and waitlink.
RECURSIVE TreapClosure(_)
TreapClosure(S) ==
    LET T == S \cup (UNION {{sudog[x].prev, sudog[x].next, sudog[x].waitlink} : x \in S} \ {0})
    IN  IF T = S THEN S ELSE TreapClosure(T)

TreapSudogs == TreapClosure({semaRoot.treap} \ {0})

\* The sudogs of a list linked by next that starts at first.
RECURSIVE ListClosure(_)
ListClosure(S) ==
    LET T == S \cup ({sudog[x].next : x \in S} \ {0})
    IN  IF T = S THEN S ELSE ListClosure(T)

NotifierSudogs == ListClosure({notifier.head} \ {0})
RecvqSudogs(c) == ListClosure({hchan[c].first} \ {0})

\* The goroutines gcGoexit has reclaimed.
Reclaimed == {g \in Fibers : parked[g].status = "_Gdead"}

\* C10: a goroutine reclaimed by gcGoexit is dead and no wait structure still
\* holds a waiter for it: not the sema treap with its wait lists, not the
\* notifyList, not the wait queue of a channel; and when every goroutine
\* parked on a channel has been reclaimed, the channel's wait queue is empty.
C10_NoWaiterLeft ==
    reclaimThrown = "none" =>
        /\ \A g \in gfree : parked[g].status = "_Gdead"
        /\ \A g \in Reclaimed :
             /\ \A x \in TreapSudogs : sudog[x].g # g
             /\ \A x \in NotifierSudogs : sudog[x].g # g
             /\ \A c \in Chans : \A x \in RecvqSudogs(c) : sudog[x].g # g
        /\ Reclaimed = Fibers => \A c \in Chans : hchan[c].first = 0

\* C11: every sudog gc_goexit0 gives to releaseSudog, from the sema treap,
\* the notifyList or gp.waiting, has a nil g at the moment it is released.
C11_ReleasedWithNilG ==
    \A i \in DOMAIN pool : pool[i].g = 0

\* The nodes of the treap of root treap in the sudogs sd: those reachable by
\* prev and next.
RECURSIVE TreeNodes(_, _)
TreeNodes(sd, S) ==
    LET T == S \cup (UNION {{sd[x].prev, sd[x].next} : x \in S} \ {0})
    IN  IF T = S THEN S ELSE TreeNodes(sd, T)

\* The wait list that starts at s, in order; n bounds its length.
RECURSIVE ChainSeq(_, _, _)
ChainSeq(sd, s, n) ==
    IF s = 0 \/ n = 0 THEN <<>> ELSE <<s>> \o ChainSeq(sd, sd[s].waitlink, n - 1)

\* The waiters on the wait word a, in FIFO order: the node of a and its wait
\* list.
WaitersOn(sd, treap, a) ==
    LET hs == {h \in TreeNodes(sd, {treap} \ {0}) : sd[h].elem = a}
    IN  IF hs = {} THEN <<>>
        ELSE ChainSeq(sd, CHOOSE h \in hs : TRUE, Cardinality(DOMAIN sd))

\* The sequence q without x.
Without(q, x) == SelectSeq(q, LAMBDA y : y # x)

\* The wait words as they are stored in the treap.
MaskedSemaAddrs == {gc_mask_ptr(a, 0) : a \in SemaAddrs}

\* C12: gc_sema_dequeue(gp, addr) takes out the one waiter whose g is gp and
\* nothing else: on every wait word the waiters afterwards are the waiters
\* before without that one, in the same order, and root.nwait goes down by
\* exactly one.
C12_DequeueRemovesOne ==
    [][\A gp \in Fibers :
         (parked[gp].status = "_Gunreachable" /\ parked'[gp].status = "_Gdead"
             /\ parked[gp].waiting_sema # 0)
         => /\ reclaimThrown' = "none"
            /\ semaRoot'.nwait = semaRoot.nwait - 1
            /\ \E x \in DOMAIN sudog :
                 /\ sudog[x].g = gp
                 /\ \E a \in MaskedSemaAddrs :
                      \E k \in DOMAIN WaitersOn(sudog, semaRoot.treap, a) :
                         WaitersOn(sudog, semaRoot.treap, a)[k] = x
                 /\ \A a \in MaskedSemaAddrs :
                      WaitersOn(sudog', semaRoot'.treap, a)
                         = Without(WaitersOn(sudog, semaRoot.treap, a), x)]_vars

\* C12 witness: a goroutine was dequeued from a wait list of several
\* waiters, as its head or as a later member, and waiters remain.
C12_Witness ==
    /\ reclaimThrown = "none"
    /\ \E i \in DOMAIN reclaimLog : reclaimLog[i].how \in {"member", "head"}
    /\ semaRoot.nwait > 0
    /\ \E a \in MaskedSemaAddrs : Len(WaitersOn(sudog, semaRoot.treap, a)) > 0

\* The treap of root treap in the sudogs sd is a binary search tree on the
\* wait word.
TreapSearchOrder(sd, treap) ==
    \A h \in TreeNodes(sd, {treap} \ {0}) :
        /\ \A x \in TreeNodes(sd, {sd[h].prev} \ {0}) : sd[x].elem < sd[h].elem
        /\ \A x \in TreeNodes(sd, {sd[h].next} \ {0}) : sd[x].elem > sd[h].elem

\* It is a min-heap on the ticket.
TreapHeapOrder(sd, treap) ==
    \A h \in TreeNodes(sd, {treap} \ {0}) :
        \A x \in {sd[h].prev, sd[h].next} \ {0} : sd[h].ticket <= sd[x].ticket

\* Its parent pointers mirror its prev and next pointers.
TreapParents(sd, treap) ==
    /\ treap # 0 => sd[treap].parent = 0
    /\ \A h \in TreeNodes(sd, {treap} \ {0}) :
        /\ \A x \in {sd[h].prev, sd[h].next} \ {0} : sd[x].parent = h
        /\ sd[h].prev # 0 => sd[h].prev # sd[h].next

\* C13: the sema treap is in binary-search order on the wait word, in
\* min-heap order on the ticket and has consistent parent pointers, before
\* and after every gc_sema_dequeue; the rotate-down loop ends with the target
\* a leaf, so that detaching it loses no other waiter and nothing throws.
C13_TreapWellFormed ==
    /\ reclaimThrown = "none"
    /\ TreapSearchOrder(sudog, semaRoot.treap)
    /\ TreapHeapOrder(sudog, semaRoot.treap)
    /\ TreapParents(sudog, semaRoot.treap)
    /\ semaRoot.nwait = Cardinality(TreapSudogs)
    /\ \A g \in Fibers \ Reclaimed :
         parked[g].waiting_sema # 0 => FirstSudog(g) \in TreapSudogs

\* C13 witness: a lone node with two children was rotated down and removed,
\* and the two children are still in the treap.
C13_Witness ==
    /\ \E i \in DOMAIN reclaimLog : reclaimLog[i].how = "two children"
    /\ Cardinality(TreeNodes(sudog, {semaRoot.treap} \ {0})) >= 2

\* The goroutine markroot reads for the stack root i.
StackRootG(i) == work.stackRoots[i - work.baseStacks + 1]

\* The worker w runs markroot on a stack root whose goroutine it reads as
\* _Gunreachable.
MarkrootOnUnreachable(w) ==
    /\ wpc[w] = "markroot" /\ wpc'[w] # "markroot"
    /\ IsStackCase(wjob[w])
    /\ work.baseStacks <= wjob[w] /\ wjob[w] < work.baseEnd
    /\ ~gc_ptr_is_masked(StackRootG(wjob[w]))
    /\ readgstatus(StackRootG(wjob[w])) = "_Gunreachable"

\* C14: when markroot reads _Gunreachable for a stack root, then under
\* gcdetectdeadlocks = 0 the goroutine is reclaimed, ends _Gdead and its stack
\* is not scanned; under 2 it becomes _Gdeadlocked and its stack is scanned;
\* under every other value markroot throws.
C14_UnreachablePolicy ==
    [][\A w \in Workers :
         MarkrootOnUnreachable(w) =>
            LET gp == StackRootG(wjob[w])
            IN  /\ detect = 0 =>
                     /\ thrown' = "none"
                     /\ gs'[gp].status = "_Gdead"
                     /\ scanned'[gp] = scanned[gp]
                /\ detect = 2 =>
                     /\ thrown' = "none"
                     /\ gs'[gp].status = "_Gdeadlocked"
                     /\ scanned'[gp] = scanned[gp] + 1
                /\ detect \notin {0, 2} =>
                     /\ thrown' = "unreachable goroutine found during regular GC"
                     /\ gs' = gs /\ scanned' = scanned]_vars

\* C14 witness: under gcdetectdeadlocks = 0 markroot has reclaimed an
\* unreachable goroutine: it is dead, counted as done and was never scanned.
C14_Witness ==
    /\ detect = 0 /\ thrown = "none"
    /\ \E g \in DOMAIN gs :
         gs[g].status = "_Gdead" /\ gcscandone[g] /\ scanned[g] = 0

\* C15: a goroutine that is _Gdeadlocked stays _Gdeadlocked, and a goroutine
\* that is _Gunreachable stays so or becomes _Gdead or _Gdeadlocked.
C15_DeadlockedIsTerminal ==
    [][\A g \in DOMAIN gs :
         /\ gs[g].status = "_Gdeadlocked" => gs'[g].status = "_Gdeadlocked"
         /\ gs[g].status = "_Gunreachable" =>
              gs'[g].status \in {"_Gunreachable", "_Gdead", "_Gdeadlocked"}]_vars

\* C15 witness: markroot has scanned the stack of a deadlocked goroutine and
\* has reclaimed an unreachable one, and the first is deadlocked still.
C15_Witness ==
    /\ thrown = "none"
    /\ \A w \in Workers : wpc[w] = "done"
    /\ \E g \in DOMAIN gs : gs[g].status = "_Gdeadlocked" /\ scanned[g] = 1
    /\ \E g \in DOMAIN gs : gs[g].status = "_Gdead"

\* The drain was called with gcDrainPartialDeadlock among its flags.
PartialDeadlock == HasFlag(dflags, gcDrainPartialDeadlock)

C17_PollNeverStopsPartialDeadlock ==
    [][PartialDeadlock =>
          /\ ~(dpc = "markroot" /\ dpc' \in {"heaploop", "done"})
          /\ ~(dpc = "scan" /\ dpc' = "done")]_vars

\* After a loop head has found gp.preempt set and a stop-the-world or
\* forEachP pending, the drain is past its root loop, claims no root job,
\* gets no work item and is on its way out.
StopsAfterStopSeen ==
    /\ dpc \in {"heaploop", "done", "returned"}
    /\ dpc = "heaploop" => ~LoopGuard(dflags, preempt, gcwaiting, runSafePointFn)

LeavesRetry(gp) == apc[gp] = "retry" /\ apc'[gp] # "retry"

\* C19: an assist that finds the CPU limiter on at the retry label returns
\* there: it is not put on the assist queue, its gcAssistBytes stays as it
\* is (so that neither stolen credit nor scan work was credited to it, both
\* of which add at least one byte), and bgScanCredit stays as it is.
C19_LimitedAssistReturns ==
    [][\A gp \in Mutators :
          (LeavesRetry(gp) /\ limiting) =>
              /\ apc'[gp] = "returned"
              /\ assistQueue' = assistQueue
              /\ gcAssistBytes' = gcAssistBytes
              /\ bgScanCredit' = bgScanCredit]_vars

\* A mutator has returned in debt with the limiter on, and not with the debt
\* it came with: it went through an assist and found the limiter on when it
\* tried again.
C19_Witness ==
    /\ limiting
    /\ \E gp \in Mutators :
         /\ apc[gp] = "returned"
         /\ gcAssistBytes[gp] < 0
         /\ gcAssistBytes[gp] # Debt(gp)

\* The debt of the first k assists of the queue q.
RECURSIVE PrefixDebt(_, _, _)
PrefixDebt(q, bytes, k) ==
    IF k = 0 THEN 0 ELSE PrefixDebt(q, bytes, k - 1) - bytes[q[k]]

\* What a flush of scanBytes bytes of credit makes of a queue q: the
\* longest prefix whose debts fit is paid and readied; if credit and queue
\* are left, the next assist gets the credit and goes to the tail; only if
\* the queue is used up is the rest given to bgScanCredit.
FlushedAs(q, scanBytes) ==
    \E k \in 0..Len(q) :
        LET rest == scanBytes - PrefixDebt(q, gcAssistBytes, k)
            paid == {q[i] : i \in 1..k}
            part == IF k < Len(q) /\ rest > 0 THEN {q[k + 1]} ELSE {}
        IN  /\ rest >= 0
            /\ k < Len(q) => rest + gcAssistBytes[q[k + 1]] < 0
            /\ \A gp \in paid : gcAssistBytes'[gp] = 0 /\ apc'[gp] = "ready"
            /\ \A gp \in part :
                  /\ gcAssistBytes'[gp] = gcAssistBytes[gp] + rest
                  /\ apc'[gp] = "parked"
            /\ \A gp \in Mutators \ (paid \cup part) :
                  gcAssistBytes'[gp] = gcAssistBytes[gp] /\ apc'[gp] = apc[gp]
            /\ assistQueue' =
                  IF part = {} THEN SubSeq(q, k + 1, Len(q))
                  ELSE Append(SubSeq(q, k + 2, Len(q)), q[k + 1])
            /\ bgScanCredit' =
                  IF k = Len(q) /\ rest > 0
                  THEN bgScanCredit + BytesToWork(rest, bytesPerWork)
                  ELSE bgScanCredit

\* C20: gcFlushBgCredit on a non-empty queue pays the assists from the head
\* of the queue for as long as their debts fit, sets their gcAssistBytes to
\* 0 and readies them; the first whose debt does not fit gets what is left
\* and goes to the tail; bgScanCredit grows only by what is left once the
\* queue is empty.
C20_FlushPaysQueueInOrder ==
    [][(flushes' = flushes + 1 /\ assistQueue # <<>>) =>
          \E scanWork \in FlushWorks :
              FlushedAs(assistQueue, WorkToBytes(scanWork, bytesPerWork))]_vars

\* A flush has paid and readied one assist and has moved the next, with
\* part of its debt paid, to the tail of the queue.
C20_Witness ==
    /\ flushes > 0
    /\ \E gp \in Mutators : apc[gp] = "ready" /\ gcAssistBytes[gp] = 0
    /\ \E i \in DOMAIN assistQueue :
         /\ i = Len(assistQueue)
         /\ gcAssistBytes[assistQueue[i]] > Debt(assistQueue[i]) + 1 + MaxYield

\* C21 (as stated): every fiber parked on the assist queue is readied no
\* later than the second gcFlushBgCredit call after it parked, when every
\* call delivers a positive amount of credit.  The fibers of SpecFlush are
\* parked from the start, so flushes counts the calls each has waited.
C21_ReadiedWithinTwoFlushes ==
    flushes >= 2 => \A gp \in Mutators : apc[gp] # "parked"

\* C21 (amended): a gcFlushBgCredit call that delivers positive credit to a
\* non-empty assist queue raises the balance of the fiber at the head and
\* lowers nobody's; the head is readied with its debt cleared, or it is
\* moved to the tail, still in debt, and no other fiber is touched.
C21_FlushPaysHead ==
    [][(flushes' # flushes /\ assistQueue # <<>>) =>
         LET h == Head(assistQueue)
         IN  /\ gcAssistBytes'[h] > gcAssistBytes[h]
             /\ \A gp \in Mutators : gcAssistBytes'[gp] >= gcAssistBytes[gp]
             /\ \/ apc'[h] = "ready" /\ gcAssistBytes'[h] = 0
                \/ /\ apc'[h] = "parked"
                   /\ gcAssistBytes'[h] < 0
                   /\ assistQueue' = Append(Tail(assistQueue), h)
                   /\ \A gp \in Mutators \ {h} :
                        /\ gcAssistBytes'[gp] = gcAssistBytes[gp]
                        /\ apc'[gp] = apc[gp]]_vars

\* Two flushes have run, the first fiber of the queue was paid a part of its
\* debt by one of them, and it is still parked.
C21_Witness ==
    /\ flushes = 2
    /\ \E gp \in Mutators :
         /\ apc[gp] = "parked"
         /\ gcAssistBytes[gp] < 0
         /\ gcAssistBytes[gp] \notin ParkedDebts

\* An indebted assist takes the assist-queue lock in gcParkAssist after
\* blackening was disabled, and gcAssistAlloc returns.
ParkFindsCycleEnded(gp) ==
    /\ apc[gp] = "after"
    /\ gcAssistBytes[gp] < 0
    /\ ~gcBlackenEnabled
    /\ apc'[gp] = "returned"

\* C22 (as stated): an indebted assist that finds blackening disabled in
\* gcParkAssist returns without parking and off the assist queue, with
\* gp.gcAssistBytes >= 0.
C22_CycleEndForgivesDebt ==
    [][\A gp \in Mutators :
         ParkFindsCycleEnded(gp) =>
            /\ ~InQueue(assistQueue', gp)
            /\ gcAssistBytes'[gp] >= 0]_vars

\* C22 (amended): an indebted assist that finds blackening disabled in
\* gcParkAssist never parks: it returns or, preempted, yields and retries;
\* when it returns it is not on the assist queue, the queue is as it was,
\* and gp.gcAssistBytes is the negative balance it had.
C22_CycleEndSkipsPark ==
    [][\A gp \in Mutators :
         (apc[gp] = "after" /\ gcAssistBytes[gp] < 0 /\ ~gcBlackenEnabled) =>
            /\ apc'[gp] # "parked"
            /\ ~InQueue(assistQueue', gp)
            /\ ParkFindsCycleEnded(gp) =>
                  /\ assistQueue' = assistQueue
                  /\ gcAssistBytes'[gp] = gcAssistBytes[gp]]_vars

\* Blackening is disabled and the parked assists are not woken yet; another
\* assist, whose gcAssistAlloc1 ran, has returned still in debt: it came
\* through gcParkAssist.
C22_Witness ==
    /\ ~gcBlackenEnabled
    /\ assistQueue # <<>>
    /\ \E gp \in Mutators :
         /\ apc[gp] = "returned"
         /\ gcAssistBytes[gp] < 0
         /\ gcAssistBytes[gp] # Debt(gp)

\* C23: gcAssistAlloc1 clears gp.param on entry and sets it exactly when
\* its own increment of work.nwait gave work.nproc and gcMarkWorkAvailable
\* then finds no work; gcAssistAlloc clears it on return and calls
\* gcMarkDone exactly when it was set.
C23_SentinelIffLastAndNoWork ==
    [][\A gp \in Mutators :
         /\ bpc[gp] \in {"dec", "drain", "inc", "poll"} => ~param[gp]
         /\ (bpc[gp] = "inc" /\ bpc'[gp] # "inc") =>
               (bpc'[gp] = "poll" <=> nwait' = nproc)
         /\ (bpc[gp] = "poll" /\ bpc'[gp] # "poll") =>
               (param'[gp] <=> ~workAvailable)
         /\ (param'[gp] /\ ~param[gp]) => (bpc[gp] = "poll" /\ ~workAvailable)
         /\ (bpc[gp] = "back" /\ bpc'[gp] = "returned") =>
               /\ ~param'[gp]
               /\ gp \in calledMarkDone' <=> param[gp]
         /\ (gp \in calledMarkDone' /\ gp \notin calledMarkDone) =>
               (bpc[gp] = "back" /\ param[gp])]_vars

\* One assist has called gcMarkDone and another has returned without
\* calling it.
C23_Witness ==
    \E gp, other \in Mutators :
       /\ gp \in calledMarkDone
       /\ bpc[other] = "returned"
       /\ other \notin calledMarkDone

\* The workers and assists between their decrement and their increment of
\* work.nwait.
Draining == bgBusy + Cardinality({gp \in Mutators : bpc[gp] \in {"drain", "inc"}})

\* Without a throw work.nwait is within 0 .. work.nproc and is work.nproc
\* less the workers and assists that are draining: a completed
\* gcAssistAlloc1 has given back what it took.
NwaitBalanced ==
    barrierThrown = "none" =>
       /\ 0 <= nwait /\ nwait <= nproc
       /\ Draining <= nproc
       /\ nwait = nproc - Draining

\* C24: a decrement of work.nwait below zero, which wraps the unsigned
\* counter around, throws; in the executions without a throw work.nwait
\* stays within 0 .. work.nproc and every completed gcAssistAlloc1 leaves
\* it as it found it.
C24_NwaitNeverUnderflows ==
    [][/\ (nwait = 0 /\ nwait' = MaxCounter) => barrierThrown' # "none"
       /\ NwaitBalanced
       /\ NwaitBalanced']_vars

\* A decrement of work.nwait from zero has thrown.
C24_Witness ==
    /\ barrierThrown = "nwait > work.nprocs"
    /\ nwait = MaxCounter
    /\ Draining = MaxCounter

\* How often object o is in the work queues, local and global.
Occ(o) ==
    full[o] + Cardinality({x \in Workers \X (1..BufCap) :
                              x[2] <= Len(gcw[x[1]]) /\ gcw[x[1]][x[2]] = o})

\* The object the worker's next step passes to greyobject, or 0.
GreyTarget(w) ==
    LET m == mpc[w]
    IN  IF m.pc = "scan" /\ m.i <= Len(ScanWords(m))
        THEN LET p == ScanWords(m)[m.i]
                 what == IF m.kind = "root" THEN ScanBlockWord(p)
                         ELSE ScanWord(m.b, elemsize, p)
             IN  IF what = "find" THEN findObject(p, heap) ELSE 0
        ELSE 0

\* C25: greyobject on an object whose mark bit is set, as after an earlier
\* greyobject on it, sets nothing and enqueues nothing; greyobject on an
\* unmarked noscan object marks it and enqueues nothing, and no noscan
\* object is ever in a work queue.
C25_SecondGreyIsNoOp ==
    [][/\ \A w \in Workers :
            /\ (GreyTarget(w) # 0 /\ marked[GreyTarget(w)] /\ mpc'[w] # mpc[w]) =>
                  /\ UNCHANGED <<marked, gcw, full>>
                  /\ mpc'[w].pc = "scan"
            /\ (mpc[w].pc = "grey" /\ heap[mpc[w].obj].noscan /\ mpc'[w] # mpc[w]) =>
                  /\ marked'[mpc[w].obj]
                  /\ UNCHANGED <<gcw, full>>
       /\ \A o \in Objs(heap) : heap[o].noscan => Occ(o)' = 0]_vars

\* A worker is about to call greyobject on an object that an earlier
\* greyobject has marked, and a noscan object is marked.
C25_Witness ==
    /\ \E w \in Workers :
         /\ GreyTarget(w) # 0
         /\ marked[GreyTarget(w)]
         /\ mpc[w].kind = "obj"
    /\ \E o \in Objs(heap) : heap[o].noscan /\ marked[o]

\* C26 (as stated): of two workers in greyobject on the same unmarked
\* scannable object only one enqueues it: a worker that comes to set the
\* mark bit when it is already set does not enqueue.
C26_LoserSkipsEnqueue ==
    [][\A w \in Workers, o \in Objs(heap) :
         (mpc[w].pc = "grey" /\ mpc[w].obj = o /\ mpc'[w] # mpc[w] /\ marked[o]) =>
            Occ(o)' = Occ(o)]_vars

\* C26 (amended): every worker that has read the mark bit of a scannable
\* object as clear sets it and enqueues the object, whether another worker
\* has set it in between or not: the object ends marked and is enqueued
\* once by each such worker.
C26_EveryReaderEnqueues ==
    [][\A w \in Workers, o \in Objs(heap) :
         (mpc[w].pc = "grey" /\ mpc[w].obj = o /\ mpc'[w] # mpc[w] /\ ~heap[o].noscan) =>
            /\ marked'[o]
            /\ Occ(o)' = Occ(o) + 1]_vars

\* Two workers have raced on an object: it is marked and is in the work
\* queues twice.
C26_Witness ==
    \E o \in Objs(heap) : marked[o] /\ ~heap[o].noscan /\ Occ(o) = 2

\* ceil(n / d)
CeilDiv(n, d) == (n + d - 1) \div d

\* scanobject on the base enqueues the oblets at k * maxObletBytes for
\* 1 <= k < ceil(elemsize / maxObletBytes), scanobject on an oblet enqueues
\* nothing, and once every job is scanned the ranges partition the object.
ObletsAsStated ==
    /\ (\E r \in oranges : r[1] = 0) =>
          oput = {<<0, k * maxObletBytes>> :
                     k \in 1..(CeilDiv(lobj.elemsize, maxObletBytes) - 1)}
    /\ \A x \in oput : x[1] = 0
    /\ ojobs = {} =>
          /\ \A r \in oranges : r[2] > 0 /\ r[1] + r[2] <= lobj.elemsize
          /\ \A k \in 0..((2 * lobj.elemsize) \div FieldStep) :
                LET a == k * (FieldStep \div 2)
                IN  a < lobj.elemsize =>
                      Cardinality({r \in oranges : r[1] <= a /\ a < r[1] + r[2]}) = 1

C28_RoundTrips ==
    /\ taglog = <<"undo", "mask">> => tagptr = BitOr(tagp, GC_SKIP_MASK)
    /\ taglog = <<"mask", "undo">> => tagptr = BitAnd(tagp, BitNot(GC_SKIP_MASK))

\* C28 (amended): gc_undo_mask_ptr(gc_mask_ptr(p)) = p & ~GC_SKIP_MASK for
\* every p; gc_mask_ptr(gc_undo_mask_ptr(p)) = p | GC_SKIP_MASK when
\* gc_mask_ptr tags, which it does when debug.gcdetectdeadlocks is 0, and
\* p & ~GC_SKIP_MASK when it returns its argument.
C28_RoundTripsByMode ==
    /\ taglog = <<"undo", "mask">> =>
          tagptr = IF detect = 0 THEN BitOr(tagp, GC_SKIP_MASK)
                   ELSE BitAnd(tagp, BitNot(GC_SKIP_MASK))
    /\ taglog = <<"mask", "undo">> => tagptr = BitAnd(tagp, BitNot(GC_SKIP_MASK))

\* A masked pointer went through gc_undo_mask_ptr and then gc_mask_ptr
\* with debug.gcdetectdeadlocks set, and came out unmasked.
C28_Witness ==
    /\ taglog = <<"undo", "mask">>
    /\ detect # 0
    /\ gc_ptr_is_masked(tagp)
    /\ ~gc_ptr_is_masked(tagptr)

Requested(gp) == assistNeed(-gcAssistBytes[gp], bytesPerWork).scanWork

UnreachableInAllgs ==
    \E i \in DOMAIN allgs : readgstatus(gc_undo_mask_ptr(allgs[i])) = "_Gunreachable"

\* C31: when allgs holds a _Gunreachable goroutine, the gcMarkRootPrepare
\* that takes the sorted snapshot ends in the throw "Found unreachable
\* goroutines in allgs snapshot!", allGsSnapshotSortedForGC returns no slice
\* and no count, and work.stackRoots, work.nValidStackRoots and the other
\* root-job fields stay as they were: the mark phase is not entered.
C31_UnreachableAbortsSnapshot ==
    [][(detect = 0 /\ UnreachableInAllgs) =>
          /\ allGsSnapshotSortedForGC(allgs, gs, detect) =
                [allgsSorted |-> <<>>, n |-> 0,
                 thrown |-> "Found unreachable goroutines in allgs snapshot!"]
          /\ thrown' = "Found unreachable goroutines in allgs snapshot!"
          /\ work' = work
          /\ work' = WorkZero
          /\ phase' = "stw"]_vars

\* The snapshot threw on an unreachable goroutine that comes after a blocked
\* one in allgs.
C31_Witness ==
    /\ detect = 0
    /\ thrown = "Found unreachable goroutines in allgs snapshot!"
    /\ Len(allgs) >= 2
    /\ ~IsLive(allgs[1])
    /\ gs[allgs[2]].status = "_Gunreachable"

\* The deferred calls gcGoexit has run, in the order it ran them.
RanCalls == [i \in DOMAIN dran |-> dran[i].fn]

HeadOf(gp) ==
    LET hs == {h \in TreeNodes(sudog, {semaRoot.treap} \ {0}) :
                  sudog[h].g = gp /\ sudog[h].waitlink # 0}
    IN  IF hs = {} THEN 0 ELSE CHOOSE h \in hs : TRUE

\* gcGoexit dequeues gp from its semaphore.
DequeuesSema(gp) ==
    /\ parked[gp].status = "_Gunreachable" /\ parked'[gp].status = "_Gdead"
    /\ parked[gp].waiting_sema # 0

\* The sudog s of the goroutine that is dequeued heads a wait list with
\* second waiter t.
DequeuesHead(gp, s, t) ==
    /\ s # 0
    /\ t = sudog[s].waitlink

\* C34: when gc_sema_dequeue removes the head s of a wait list of two or
\* more, the second waiter t has the ticket, parent, prev and next of s
\* afterwards, the root or the parent's link that held s holds t, the
\* children of s have t as their parent, and t.waittail is nil if t has no
\* waitlink and the old waittail of s otherwise.
C34_SecondWaiterPromoted ==
    [][\A gp \in {g \in Fibers : DequeuesSema(g)} :
       \A s \in {HeadOf(gp)} : \A t \in DOMAIN sudog :
         DequeuesHead(gp, s, t) =>
            /\ reclaimThrown' = "none"
            /\ sudog'[t].ticket = sudog[s].ticket
            /\ sudog'[t].parent = sudog[s].parent
            /\ sudog'[t].prev = sudog[s].prev
            /\ sudog'[t].next = sudog[s].next
            /\ sudog'[t].elem = sudog[s].elem
            /\ IF sudog[s].parent = 0
               THEN semaRoot'.treap = t
               ELSE /\ sudog[sudog[s].parent].prev = s =>
                          sudog'[sudog[s].parent].prev = t
                    /\ sudog[sudog[s].parent].next = s =>
                          sudog'[sudog[s].parent].next = t
            /\ sudog[s].prev # 0 => sudog'[sudog[s].prev].parent = t
            /\ sudog[s].next # 0 => sudog'[sudog[s].next].parent = t
            /\ sudog'[t].waitlink = sudog[t].waitlink
            /\ (sudog'[t].waittail = 0) <=> (sudog'[t].waitlink = 0)
            /\ sudog'[t].waitlink # 0 => sudog'[t].waittail = sudog[s].waittail]_vars

\* The head of a wait list of three was dequeued and the promoted waiter
\* heads the two that remain.
C34_Witness ==
    /\ reclaimThrown = "none"
    /\ Len(reclaimLog) = 1 /\ reclaimLog[1].how = "head"
    /\ \E h \in TreeNodes(sudog, {semaRoot.treap} \ {0}) :
         sudog[h].waittail # 0 /\ sudog[h].waittail = sudog[h].waitlink

\* The last element of a non-empty sequence.
Last(q) == q[Len(q)]

\* Every waiter that heads a node of the treap has a nil waittail exactly
\* when it has a nil waitlink, and its waittail is the last of its wait list
\* otherwise.
WaittailIsLast(sd, treap) ==
    \A h \in TreeNodes(sd, {treap} \ {0}) :
        /\ (sd[h].waittail = 0) <=> (sd[h].waitlink = 0)
        /\ sd[h].waitlink # 0 =>
              sd[h].waittail = Last(ChainSeq(sd, h, Cardinality(DOMAIN sd)))

\* C35: after every gc_sema_dequeue each waiter h that heads a node of the
\* treap has h.waittail = nil iff h.waitlink = nil, and h.waittail is the
\* last waiter of its wait list otherwise.
C35_WaittailIsLast ==
    reclaimThrown = "none" => WaittailIsLast(sudog, semaRoot.treap)

\* Every goroutine on the assist queue q is in debt, parked, and on it once.
QueuedInDebtOnce(q, bytes, pc) ==
    /\ \A i \in DOMAIN q : bytes[q[i]] < 0 /\ pc[q[i]] = "parked"
    /\ \A i, j \in DOMAIN q : q[i] = q[j] => i = j

\* C36: every goroutine on work.assistQueue has gcAssistBytes < 0 and is on
\* the queue once, before and after every step, and a goroutine that
\* gcFlushBgCredit makes runnable has gcAssistBytes = 0 then.
C36_QueuedInDebtReadiedPaid ==
    [][/\ QueuedInDebtOnce(assistQueue, gcAssistBytes, apc)
       /\ QueuedInDebtOnce(assistQueue', gcAssistBytes', apc')
       /\ \A gp \in Mutators :
            (flushes' # flushes /\ apc[gp] = "parked" /\ apc'[gp] = "ready") =>
                gcAssistBytes'[gp] = 0]_vars

\* gcFlushBgCredit has paid one parked assist in full and the next in part:
\* the first is runnable and the second is still queued, with a smaller debt.
C36_Witness ==
    /\ flushes > 0
    /\ \E gp, hp \in Mutators :
         /\ apc[gp] = "ready" /\ gcAssistBytes[gp] = 0
         /\ assistQueue = <<hp>>
         /\ gcAssistBytes[hp] < 0 /\ gcAssistBytes[hp] > Debt(hp) + 1

\* gcParkAssist runs for gp, in debt, while blackening is enabled and
\* credit is there.
ParkFindsCredit(gp) ==
    /\ apc[gp] = "after" /\ apc'[gp] # "after"
    /\ yields' = yields
    /\ gcAssistBytes[gp] < 0
    /\ gcBlackenEnabled
    /\ bgScanCredit > 0

\* C37: when gcParkAssist finds bgScanCredit > 0 after it has pushed the
\* caller, the assist queue afterwards is the queue before the call, with
\* the same head, tail and links and the tail's link nil; the caller is not
\* parked and gcAssistAlloc retries.
C37_BackOutRestoresQueue ==
    [][\A gp \in Mutators :
         ParkFindsCredit(gp) =>
            /\ apc'[gp] = "retry"
            /\ ~InQueue(assistQueue', gp)
            /\ assistQueue' = assistQueue
            /\ parkAndBackOut(assistQueue, gp) = gQueueOf(assistQueue)
            /\ gQueueOf(assistQueue).tail # 0 =>
                  parkAndBackOut(assistQueue, gp).schedlink[gQueueOf(assistQueue).tail] = 0
            /\ \A hp \in Mutators \ {gp} : apc'[hp] = apc[hp]]_vars

\* An assist backed out of a queue that holds a parked assist and retries.
C37_Witness ==
    /\ \E gp, hp \in Mutators :
         /\ apc[gp] = "retry" /\ gcAssistBytes[gp] < 0
         /\ assistQueue = <<hp>> /\ apc[hp] = "parked"
    /\ bgScanCredit > 0
    /\ flushes = 0 /\ yields = 0

\* gcWakeAllAssists pops the assist queue: the queue empties and no credit
\* is flushed in the step.
WakesAllAssists ==
    /\ ~gcBlackenEnabled
    /\ assistQueue # <<>>
    /\ assistQueue' = <<>>
    /\ flushes' = flushes

\* C38: once gcBlackenEnabled is cleared, gcWakeAllAssists makes every fiber
\* of the assist queue runnable and leaves the queue empty and no fiber
\* parked, and from the clearing on no gcParkAssist parks its caller or
\* puts it on the queue, while blackening stays disabled.
C38_WakeAllLeavesNoneParked ==
    [][~gcBlackenEnabled =>
         /\ ~gcBlackenEnabled'
         /\ \A gp \in Mutators :
              /\ apc'[gp] = "parked" => apc[gp] = "parked"
              /\ InQueue(assistQueue', gp) => InQueue(assistQueue, gp)
         /\ WakesAllAssists =>
              /\ \A gp \in Mutators :
                   /\ InQueue(assistQueue, gp) => apc'[gp] = "ready"
                   /\ apc'[gp] # "parked"]_vars

\* Both assists were parked in debt when gcWakeAllAssists ran: they are
\* runnable with their debt, and the queue is empty.
C38_Witness ==
    /\ ~gcBlackenEnabled
    /\ assistQueue = <<>>
    /\ \A gp \in Mutators : apc[gp] = "ready" /\ gcAssistBytes[gp] < 0
    /\ flushes = 0

\* One assist was woken by gcWakeAllAssists and another went through
\* gcParkAssist with blackening disabled and returned in debt.
C38_ParkAfterClear ==
    /\ ~gcBlackenEnabled
    /\ assistQueue = <<>>
    /\ \E gp, hp \in Mutators :
         /\ apc[gp] \in {"ready", "returned"} /\ gcAssistBytes[gp] = Debt(gp)
         /\ apc[hp] = "returned" /\ gcAssistBytes[hp] < 0
         /\ gcAssistBytes[hp] # Debt(hp)

\* C39: when gcDrain has returned, gcw.heapScanWork is 0 and
\* gcController.heapScanWork has grown by the local balance at entry plus
\* the scan work done during the call; with gcDrainFlushBgCredit the amounts
\* passed to gcFlushBgCredit sum to the scan work done during the call, and
\* without it nothing is passed.
C39_DrainFlushesAllScanWork ==
    dpc = "returned" =>
       /\ heapScanWork = 0
       /\ ctlScanWork = drained.entry + drained.done
       /\ drained.flushed = IF HasFlag(dflags, gcDrainFlushBgCredit)
                            THEN drained.done ELSE 0
       /\ bgScanCredit = drained.flushed

\* A gcDrain with gcDrainFlushBgCredit entered with a balance of 1000,
\* scanned two objects of 1000 each, flushed in the loop and again at done,
\* and has returned.
C39_Witness ==
    /\ dpc = "returned"
    /\ HasFlag(dflags, gcDrainFlushBgCredit)
    /\ drained = [entry |-> 1000, done |-> 2000, flushed |-> 2000]
    /\ ctlScanWork = 3000

\* The roots are prepared, no throw has happened, and markroot has run and
\* returned for every job in [0, work.markrootJobs).
RootJobsCompleted ==
    /\ phase = "mark"
    /\ thrown = "none"
    /\ \A i \in RootIdx : i < work.markrootJobs => invoked[i] >= 1

\* C40: once every root job in [0, markrootJobs) has completed,
\* gcMarkRootCheck does not throw: markrootNext >= markrootJobs and each of
\* the first nStackRoots goroutines has gcscandone set, whether or not the
\* snapshot has a blocked suffix.
C40_RootCheckPasses ==
    RootJobsCompleted =>
       /\ work.markrootNext >= work.markrootJobs
       /\ \A i \in DOMAIN allgs : i <= work.nStackRoots => gcscandone[allgs[i]]
       /\ gcMarkRootCheck(work, allgs, gcscandone) = "none"

\* What the code does: once every root job has completed, gcMarkRootCheck
\* finds no job left over, and it throws "scan missed a g" exactly when the
\* snapshot has a blocked suffix, whose goroutines no job has scanned.
RootCheckThrowsOnBlockedSuffix ==
    RootJobsCompleted =>
       /\ work.markrootNext >= work.markrootJobs
       /\ \A i \in 1..work.nValidStackRoots : gcscandone[work.stackRoots[i]]
       /\ gcMarkRootCheck(work, allgs, gcscandone) =
             IF work.nValidStackRoots < work.nStackRoots
             THEN "scan missed a g" ELSE "none"

\* Every root job has completed for a snapshot with a blocked suffix, and
\* gcMarkRootCheck would throw.
RootCheckThrowsReached ==
    /\ RootJobsCompleted
    /\ AllWorkersDone
    /\ 0 < work.nValidStackRoots
    /\ work.nValidStackRoots < work.nStackRoots
    /\ gcMarkRootCheck(work, allgs, gcscandone) = "scan missed a g"

====
